---- MODULE Spec2Model ----
(***************************************************************************)
(* Model of the training pipeline of projeto_cripto_ia:                    *)
(*   src/src/model_training.py  get_best_model_by_mse,                     *)
(*                              train_and_evaluate_model, compare_models   *)
(*   src/src/preprocessing.py   remove_high_vif_features,                  *)
(*                              preprocess_features                        *)
(*   src/main.py                the per-symbol loop of the train action    *)
(*                                                                         *)
(* Rows of a table are the integers 0..n-1 (the index after                *)
(* reset_index(drop=True)).  test_size is kept in tenths (3 is 0.3).       *)
(* An estimator object is identified by its key in the model dictionary;   *)
(* its state is the set of rows of its most recent successful fit.         *)
(***************************************************************************)
EXTENDS Integers, Sequences, FiniteSets, TLC

\* ---------------------------------------------------------------- bounds
MaxRows == 5
MaxKfolds == 2
MaxMse == 1
MaxCols == 3
MaxKBest == 4
MaxForce == 2
MaxScore == 2
MaxSimRows == 3
MaxLoadRows == 3
MaxDate == 2
MaxFiles == 3
MaxSpan == 7308

\* ------------------------------------------------------------ input sets
RowCounts == 0..MaxRows
KfoldChoices == 2..MaxKfolds
\* test_size in tenths: none, the config default 0.1, the spec's 0.2,
\* the functions' default 0.3, and 0.8 whose complement is inexact
TestSizes == {0, 1, 2, 3, 8}
MseValues == 0..MaxMse

\* column labels; a table has a prefix of them as its columns
ColumnNames == <<"A", "B", "C", "D", "E", "F">>
ColumnsOf(m) == SubSeq(ColumnNames, 1, m)
Elems(seq) == {seq[i] : i \in 1..Len(seq)}
\* VIF values as the comparison with the threshold sees them; NaN is what
\* 1/(1 - R^2) gives for an all-zero column
NaN == -1
VifValues == {NaN, 1, 7, 12}
\* threshold is any float: 0 stands for one below 1, which every VIF that
\* is a number exceeds; 5 and 10 are the defaults of lines 34 and 65
Thresholds == {0, 5, 10}
\* the dtypes a column of X can have: numeric, text, dates, boolean
Dtypes == {"float64", "object", "datetime64", "bool"}
\* the frames tried: numeric columns, the last one possibly not
DtypeChoices(cols) ==
  { d \in [Elems(cols) -> Dtypes] :
      \A i \in 1..(Len(cols) - 1) : d[cols[i]] = "float64" }
KBestChoices == 1..MaxKBest
ScoreValues == 1..MaxScore
\* force_include: None (the empty list behaves the same) or up to MaxForce
\* labels, some of which may name no column of X
ForceLists ==
  UNION { [1..len -> Elems(ColumnsOf(MaxCols + 1))] : len \in 0..MaxForce }

\* the keys of model_defs in insertion (iteration) order
ModelOrder == <<"MLP", "Linear", "Polynomial", "RandomForest">>
ModelNames == {ModelOrder[i] : i \in 1..Len(ModelOrder)}
None == "None"

\* model_training.py lines 234-249: the keys of compare_models' models
CmOrder == <<"MLP", "Linear Regression", "Polynomial Regression", "Random Forest">>

\* str.lower() on the keys of model_mapping / model_defs
lower(name) ==
  CASE name = "MLP" -> "mlp"
    [] name = "Linear" -> "linear"
    [] name = "Polynomial" -> "polynomial"
    [] name = "RandomForest" -> "randomforest"
ModelTypes == {lower(m) : m \in ModelNames}

\* the keys of all_processed_dfs, in iteration order
AllProcessed == <<"BTC_USDT", "ETH_USDT">>
Pairs == Elems(AllProcessed)

\* --validation_split values tried in main: no hold-out, and the default
MainSplits == {0, 1}
\* test_size default of get_best_model_by_mse (line 522), in tenths
DefaultTestSize == 3
\* --kfolds values tried in main
MainKfolds == {2}
\* --model: absent, or one of argparse's choices (line 125)
\* --poly_degree: 2 (default), or 1 with --model Polynomial
ArgsChoices ==
  { a \in [model : {None} \cup ModelNames, kfolds : MainKfolds,
            validation_split : MainSplits, poly_degree : {1, 2}] :
      a.poly_degree = 2 \/ a.model = "Polynomial" }
\* len(df_filtered) tried in main: no row, fewer rows than folds, a pool
\* shorter than the table, and a table long enough for cross-validation
MainRows == {0, 1, 2, MaxRows}
\* the columns preprocess_features hands back to main for each pair
FeaturesOf(pair) == IF pair = "BTC_USDT" THEN <<"B", "A">> ELSE <<"A">>

\* --------------------------------------------------------- pure helpers
RECURSIVE SeqSum(_)
SeqSum(s) == IF s = <<>> THEN 0 ELSE Head(s) + SeqSum(Tail(s))

\* a mean kept exact as <<sum, count>>; float("inf") is <<1, 0>>
Inf == <<1, 0>>
np_mean(scores) == <<SeqSum(scores), Len(scores)>>
\* np.isnan(scores).all() and np.nanmean(scores)
all_nan(scores) == \A i \in 1..Len(scores) : scores[i] = NaN
IsNumber(x) == x # NaN
np_nanmean(scores) == np_mean(SelectSeq(scores, IsNumber))
\* a < b on such means (cross-multiplied; counts are never negative)
\* the comparison of line 608 written with <=
MeanLessEq(a, b) == a[1] * b[2] <= b[1] * a[2]
MeanLess(a, b) == a[1] * b[2] < b[1] * a[2]

\* int(len(X_reset) * (1 - test_size)) is evaluated in IEEE doubles.  For
\* these (rows, tenths) pairs, rows <= 20, the double product lies just
\* below the exact integer value and int() truncates to one less.
FloatShort == { <<5, 8>>, <<10, 8>>, <<15, 8>>, <<20, 8>>, <<10, 9>>, <<20, 9>> }
ExactFloor(rows, t) == (rows * (10 - t)) \div 10
split_index_of(rows, t) ==
  IF <<rows, t>> \in FloatShort THEN ExactFloor(rows, t) - 1 ELSE ExactFloor(rows, t)

\* X_reset.iloc[:split_index] / X_reset.iloc[split_index:]  (test_size > 0),
\* the whole table / None otherwise
\* the pool not cut at split_index
train_full_uncut(rows, t) == 0..(rows - 1)
train_full_of(rows, t) ==
  IF t > 0 THEN 0..(split_index_of(rows, t) - 1) ELSE 0..(rows - 1)
val_of(rows, t) ==
  IF t > 0 THEN [some |-> TRUE, rows |-> split_index_of(rows, t)..(rows - 1)]
           ELSE [some |-> FALSE, rows |-> {}]

\* numpy RandomState(42).shuffle(arange(m)), as KFold(shuffle=True,
\* random_state=42) applies it to the sample indices
Shuffle42(m) ==
  CASE m = 0 -> <<>>
    [] m = 1 -> <<0>>
    [] m = 2 -> <<1, 0>>
    [] m = 3 -> <<0, 1, 2>>
    [] m = 4 -> <<1, 3, 0, 2>>
    [] m = 5 -> <<1, 4, 2, 0, 3>>
    [] m = 6 -> <<0, 1, 5, 2, 4, 3>>
    [] m = 7 -> <<0, 1, 5, 2, 4, 3, 6>>
    [] m = 8 -> <<1, 5, 0, 7, 2, 4, 3, 6>>
    [] m = 9 -> <<7, 1, 5, 0, 8, 2, 4, 3, 6>>
    [] m = 10 -> <<8, 1, 5, 0, 7, 2, 9, 4, 3, 6>>

\* KFold._iter_test_indices: the first m % k folds have m \div k + 1 samples
fold_size(m, k, i) == (m \div k) + (IF i <= m % k THEN 1 ELSE 0)
RECURSIVE fold_start(_, _, _)
fold_start(m, k, i) ==
  IF i = 1 THEN 0 ELSE fold_start(m, k, i - 1) + fold_size(m, k, i - 1)
\* positions of the i-th test fold / its complement, for m samples
test_index_in(indices, m, k, i) ==
  { indices[p] : p \in (fold_start(m, k, i) + 1)..(fold_start(m, k, i) + fold_size(m, k, i)) }
train_index_in(indices, m, k, i) == (0..(m - 1)) \ test_index_in(indices, m, k, i)
\* the same under random_state=42
test_index(m, k, i) == test_index_in(Shuffle42(m), m, k, i)
train_index(m, k, i) == train_index_in(Shuffle42(m), m, k, i)
\* X_train_full.iloc[idx]: the pool is a prefix 0..m-1, so positions are rows
iloc(pool, idx) == pool \cap idx

\* ------------------------------------------------ preprocessing helpers
\* pandas Series.max(): NaN entries are skipped, NaN when nothing is left
vif_max(cols, v) ==
  LET vals == { v[c] : c \in Elems(cols) } \ {NaN}
  IN IF vals = {} THEN NaN ELSE CHOOSE x \in vals : \A y \in vals : y <= x
\* pandas Series.idxmax(): label of the first occurrence of the maximum
vif_idxmax(cols, v) ==
  cols[CHOOSE i \in 1..Len(cols) :
         /\ v[cols[i]] = vif_max(cols, v)
         /\ \A j \in 1..(i - 1) : v[cols[j]] # vif_max(cols, v)]
\* the comparison of line 53 against a threshold ten too high
exceeds_lenient(x, threshold) == x # NaN /\ x > threshold + 10
\* max_vif > threshold; a comparison with NaN is False
exceeds(x, threshold) == x # NaN /\ x > threshold
\* X.drop(columns=label), order kept
RECURSIVE drop(_, _)
drop(cols, label) ==
  IF cols = <<>> THEN <<>>
  ELSE IF Head(cols) = label THEN drop(Tail(cols), label)
  ELSE <<Head(cols)>> \o drop(Tail(cols), label)

\* line 104-111: StandardScaler.fit_transform on a forced column that is not
\* yet selected raises for a column of text; a boolean one is cast; one of
\* dates is cast or refused (casts), as the numpy and scikit-learn at hand do
RECURSIVE force_raises(_, _, _, _, _)
force_raises(selected, force, X_cols_orig, d, casts) ==
  IF force = <<>> THEN FALSE
  ELSE IF Head(force) \in Elems(X_cols_orig) /\ Head(force) \notin Elems(selected)
         THEN \/ d[Head(force)] = "object"
              \/ d[Head(force)] = "datetime64" /\ ~casts
              \/ force_raises(Append(selected, Head(force)), Tail(force), X_cols_orig,
                              d, casts)
         ELSE force_raises(selected, Tail(force), X_cols_orig, d, casts)

\* line 97
clamp_k(k, ncols) == IF k < ncols THEN k ELSE ncols

\* SelectKBest._get_support_mask: stable argsort of the scores, the last
\* k positions are kept; get_support() lists them in column order
Outranks(cols, sc, i, j) ==
  \/ sc[cols[i]] > sc[cols[j]]
  \/ (sc[cols[i]] = sc[cols[j]] /\ i > j)
RECURSIVE keep(_, _)
keep(cols, mask) ==
  IF cols = <<>> THEN <<>>
  ELSE (IF Head(cols) \in mask THEN <<Head(cols)>> ELSE <<>>) \o keep(Tail(cols), mask)
get_support(cols, sc, k) ==
  keep(cols, { cols[i] : i \in { i \in 1..Len(cols) :
                 Cardinality({ j \in 1..Len(cols) : Outranks(cols, sc, j, i) }) < k } })

\* the loop without the "not in selected_columns" test
RECURSIVE force_append_dup(_, _, _)
force_append_dup(selected, force, X_cols_orig) ==
  IF force = <<>> THEN selected
  ELSE force_append_dup(
         IF Head(force) \in Elems(X_cols_orig)
           THEN Append(selected, Head(force)) ELSE selected,
         Tail(force), X_cols_orig)

\* lines 103-112: the force_include loop
RECURSIVE force_append(_, _, _)
force_append(selected, force, X_cols_orig) ==
  IF force = <<>> THEN selected
  ELSE force_append(
         IF Head(force) \in Elems(X_cols_orig) /\ Head(force) \notin Elems(selected)
           THEN Append(selected, Head(force)) ELSE selected,
         Tail(force), X_cols_orig)

\* what one fold of one candidate can do: fit raises, predict (or the
\* metric) raises, or mean_squared_error returns a value
FoldOutcomes ==
  {[kind |-> "fit_raises", mse |-> 0], [kind |-> "predict_raises", mse |-> 0]}
    \cup {[kind |-> "scored", mse |-> v] : v \in MseValues}

\* how a candidate's try block ended: the number of folds that had been
\* scored and, when line 605 was reached, avg_mse
Pending == [status |-> "pending", nscores |-> 0, mse |-> Inf]
Ended(status, scores) ==
  [status |-> status, nscores |-> Len(scores),
   mse |-> IF status = "ok" THEN np_mean(scores) ELSE Inf]

Unfitted == [fit |-> FALSE, rows |-> {}]
FitOn(rows) == [fit |-> TRUE, rows |-> rows]

\* ------------------------------------------- simulate_investment_and_profit
\* prediction_profit.py line 73
model_types == <<"mlp", "linear", "polynomial", "randomforest">>
\* config.py line 103
INITIAL_INVESTMENT == 1000
\* rows of a series are numbered from 1 here: row t of the frame is
\* position t + 1.  Floats are kept as exact fractions <<numerator,
\* denominator>> in lowest terms.
\* the close prices tried: a low and a high one
CloseValues == {1, 2}
CloseSeries == UNION {[1..len -> CloseValues] : len \in 0..MaxSimRows}
\* what model.predict returns for a row: nothing positive, the lowest
\* close, more than every close
PredValues == {0, 1, 3}

Abs(x) == IF x < 0 THEN -x ELSE x
RECURSIVE gcd(_, _)
gcd(a, b) == IF b = 0 THEN a ELSE gcd(b, a % b)
Frac(nu, de) ==
  LET g == gcd(Abs(nu), de) IN <<nu \div g, de \div g>>
FracMul(a, b) == Frac(a[1] * b[1], a[2] * b[2])
FracAdd(a, b) == Frac(a[1] * b[2] + b[1] * a[2], a[2] * b[2])

\* line 148: data_df["close"].shift(1).fillna(0)
last_known_price_bfill(close) ==
  [t \in 1..Len(close) |-> IF t = 1 THEN close[1] ELSE close[t - 1]]
last_known_price(close) ==
  [t \in 1..Len(close) |-> IF t = 1 THEN 0 ELSE close[t - 1]]
\* line 149: np.where(all_predictions > last_known_price, 1, 0)
raw_signals_ge(pred, close) ==
  [t \in 1..Len(close) |-> IF pred[t] >= last_known_price(close)[t] THEN 1 ELSE 0]
raw_signals(pred, close) ==
  [t \in 1..Len(close) |-> IF pred[t] > last_known_price(close)[t] THEN 1 ELSE 0]
\* line 150: .shift(1).fillna(0)
shift_none(sig) == sig
shift_fill(sig) ==
  [t \in 1..Len(sig) |-> IF t = 1 THEN 0 ELSE sig[t - 1]]
\* line 152: data_df["close"].pct_change().fillna(0)
daily_diff(close) ==
  [t \in 1..Len(close) |->
     IF t = 1 THEN <<0, 1>> ELSE Frac(close[t] - close[t - 1], 1)]
pct_change(close) ==
  [t \in 1..Len(close) |->
     IF t = 1 THEN <<0, 1>> ELSE Frac(close[t] - close[t - 1], close[t - 1])]
\* line 154: daily_returns * signals
returns_unsignalled(daily, sig) == daily
strategy_returns(daily, sig) ==
  [t \in 1..Len(daily) |-> FracMul(daily[t], <<sig[t], 1>>)]
\* line 156: (1 + strategy_returns).cumprod()
RECURSIVE cumprod_at(_, _)
cumprod_at(ret, t) ==
  IF t = 0 THEN <<1, 1>>
  ELSE FracMul(cumprod_at(ret, t - 1), FracAdd(<<1, 1>>, ret[t]))
cumprod(ret) == [t \in 1..Len(ret) |-> cumprod_at(ret, t)]
\* lines 108-111 and 158-160: a column assigned to profit_evolution keeps
\* the rows whose date could be parsed
NoColumn == [present |-> FALSE, rows |-> {}, balance |-> <<>>]
Column(kept, series) ==
  [present |-> TRUE, rows |-> kept, balance |-> series]

\* ---------------------------------------------------------------- state
VARIABLES
  pc,            \* position in the running function
  n,             \* len(X_reset)
  test_size,     \* in tenths
  kfolds,
  split_index,
  X_train_full,  \* rows of the training pool
  X_val,         \* [some, rows]: the hold-out, some = FALSE is None
  cand,          \* position in model_defs.items()
  fold,          \* position in kf.split(X_train_full)
  mse_scores,
  best_model,
  best_name,
  best_mse,
  fitted,        \* estimator key -> state of that estimator object
  log,           \* records written by logging.*
  cv_train,      \* rows handed to fit() inside the K-fold loop so far
  cv_test,       \* rows handed to predict() inside the K-fold loop so far
  scored,        \* key -> how that candidate's try block ended
  result,        \* returned tuple
  \* --- preprocess_features / remove_high_vif_features
  pp_pc,           \* position in preprocess_features
  X_columns,       \* columns of the X passed in
  dtypes,          \* column of X -> its dtype
  vif_threshold,
  collinear,       \* labels of a collinear pair of columns of X, or {}
  X_cur,           \* columns of X inside the VIF loop
  vif,             \* the VIF series of the current iteration
  dropped,         \* labels dropped so far, in order
  X_vif,           \* columns returned by remove_high_vif_features
  k_best_arg,      \* k_best as passed
  k_best,          \* k_best after line 97
  selected_columns,\* columns chosen by SelectKBest
  force_include,
  pp_out,          \* columns of the returned frame
  pp_raise,        \* where an exception left the function, "" if none
  \* --- main, the train action
  m_pc,            \* position in main's loop over all_processed_dfs
  args,            \* the parsed command line
  sym,             \* position in all_processed_dfs.items()
  X_clean,         \* [rows, columns]: the frame preprocess_features returned
  models_folder,   \* <<pair, model type>> -> content of <type>_<pair>.pkl
  features_json,   \* pair -> content of features_<pair>.json
  preprocessed_csv,\* pair -> columns of preprocessed_<pair>.csv
  plots,           \* .png files compare_models left in the analysis folder
  main_log,        \* warnings and errors logged by main itself
  results,         \* compare_models: names of the rows of results
  best_regressor,  \* compare_models: first row of results with minimal Avg MSE
  \* --- simulate_investment_and_profit
  s_pc,            \* position in simulate_investment_and_profit
  pair_name,
  csv_close,       \* the close column of preprocessed_<pair>.csv
  csv_bad_dates,   \* rows of the file whose date cannot be parsed
  json_unreadable, \* pairs whose features_<pair>.json exists but fails json.load
  csv_empty,       \* pairs whose preprocessed_<pair>.csv exists without content
  loaded_models,   \* keys of loaded_models, in insertion order
  model_i,         \* position in loaded_models.items()
  all_predictions,
  signals,         \* the shifted signals of the model evaluated last
  cumulative_returns,
  profit_evolution,\* model key -> its balance_<key> column
  profit_plot,     \* profit_evolution_<pair>.png has been written
  sim_log          \* warnings and errors logged by the function

gbVars == <<pc, n, test_size, kfolds, split_index, X_train_full, X_val, cand,
            fold, mse_scores, best_model, best_name, best_mse, fitted, log,
            cv_train, cv_test, scored, result>>
ppVars == <<pp_pc, X_columns, dtypes, vif_threshold, collinear, X_cur, vif, dropped,
            X_vif, k_best_arg, k_best, selected_columns, force_include,
            pp_out, pp_raise>>
trVars == <<m_pc, args, sym, X_clean, models_folder, features_json,
            preprocessed_csv, plots, main_log, results, best_regressor>>
simVars == <<s_pc, pair_name, csv_close, csv_bad_dates, json_unreadable, csv_empty,
             loaded_models, model_i, all_predictions, signals,
             cumulative_returns, profit_evolution, profit_plot, sim_log>>
\* a second call of get_best_model_by_mse on the same X, y:
\* call       0 for a single call, else the number of the running call
\* seen       the fits met so far, each with what it did
\* first_name the name the first call returned
\* np_random  how far numpy's global random stream has been drawn; it
\*            belongs to the process, not to a call
\* kf_indices the sample positions as the running kf.split shuffled them
VARIABLES call, seen, first_name, np_random, kf_indices
twVars == <<call, seen, first_name, np_random, kf_indices>>

\* load_crypto_data and the download step of main:
\* l_pc                 where the call is
\* force_download       args.force_download
\* calculate_indicators the argument of that name
\* cached               filepath.exists() when the call began
\* local_file           data/raw/<BASE>_<QUOTE>_<timeframe>.csv
\* response             what requests.get does for the url
\* requests             the number of HTTP requests issued
\* returned_df             what load_crypto_data returned
VARIABLES l_pc, force_download, calculate_indicators, cached, local_file,
          response, requests, returned_df
ldVars == <<l_pc, force_download, calculate_indicators, cached, local_file,
            response, requests, returned_df>>
\* the head of main's train loop for one pair:
\* f_pc        where the loop body is
\* use_usd_brl args.use_usd_brl
\* df_featured the columns of the featured table
\* features    the list built at main.py lines 283-296
\* offered     the columns of the frame handed to preprocess_features
VARIABLES f_pc, use_usd_brl, df_featured, features, offered
ftVars == <<f_pc, use_usd_brl, df_featured, features, offered>>
\* limpar_pastas_saida and its call in main:
\* c_pc       where main is
\* action_all args.action == "all"
\* files      the files on disk, files0 those present when main started
\* dirs       the directories on disk, dirs0 those present when main started
\* locked     the files os.remove fails on
\* visited    the files the walk has reached
\* cl_log     the files logged as not removed
\* touched    a stage of main has read or written an output folder
VARIABLES c_pc, action_all, files, files0, dirs, dirs0, locked, visited, cl_log,
          touched
clVars == <<c_pc, action_all, files, files0, dirs, dirs0, locked, visited, cl_log,
            touched>>
\* fetch_usd_brl_bacen, dates counted in days:
\* b_pc       where the call is
\* start_date, end_date the arguments, dates_parse whether strptime takes them
\* start_dt   the loop variable
\* blocks     the (dataInicial, dataFinal) pairs requested so far
\* all_data   the number of non-empty answers collected
\* usd_brl_df what the call returned
VARIABLES b_pc, start_date, end_date, dates_parse, start_dt, blocks, all_data,
          usd_brl_df
bcVars == <<b_pc, start_date, end_date, dates_parse, start_dt, blocks, all_data,
            usd_brl_df>>
\* limpar_modelos_antigos(pair_name, models_folder), on the folder that
\* models_folder stands for:
\* lm_pc      where the call is
\* lm_pair    the argument pair_name
\* prefix_i   position in formatos
\* lm_log     the paths logged as removed
VARIABLES lm_pc, lm_pair, prefix_i, lm_log
lmVars == <<lm_pc, lm_pair, prefix_i, lm_log>>
ioVars == <<ldVars, ftVars, clVars, bcVars, lmVars>>

vars == <<gbVars, ppVars, trVars, simVars, twVars, ioVars>>

NoResult == [returned |-> FALSE, model |-> None, name |-> None]

\* ------------------------------------------ get_best_model_by_mse (direct)
GbIdle ==
  /\ split_index = 0
  /\ X_train_full = {}
  /\ X_val = [some |-> FALSE, rows |-> {}]
  /\ cand = 1
  /\ fold = 1
  /\ mse_scores = <<>>
  /\ best_model = None
  /\ best_name = None
  /\ best_mse = Inf
  /\ fitted = [m \in ModelNames |-> Unfitted]
  /\ log = <<>>
  /\ cv_train = {}
  /\ cv_test = {}
  /\ scored = [m \in ModelNames |-> Pending]
  /\ result = NoResult

PpLocals ==
  /\ X_cur = <<>>
  /\ vif = <<>>
  /\ dropped = <<>>
  /\ X_vif = <<>>
  /\ k_best = 0
  /\ selected_columns = <<>>
  /\ force_include = <<>>
  /\ pp_out = <<>>
  /\ pp_raise = ""
PpIdle ==
  /\ PpLocals
  /\ k_best_arg = 0

NoFile == [kind |-> "absent", fit_rows |-> {}, fit_columns |-> <<>>, features |-> <<>>]
\* a .pkl file joblib.load fails on
Unloadable == [kind |-> "unloadable", fit_rows |-> {}, fit_columns |-> <<>>, features |-> <<>>]
NoArgs == [model |-> None, kfolds |-> 0, validation_split |-> 0, poly_degree |-> 0]
NoFrame == [rows |-> 0, columns |-> <<>>]
NoRow == [Model |-> None, mse |-> Inf]

\* main is not running: nothing on disk, nothing logged
TrIdle ==
  /\ m_pc = "direct"
  /\ args = NoArgs
  /\ sym = 0
  /\ X_clean = NoFrame
  /\ models_folder = [f \in Pairs \X ModelTypes |-> NoFile]
  /\ features_json = [p \in Pairs |-> <<>>]
  /\ preprocessed_csv = [p \in Pairs |-> <<>>]
  /\ plots = {}
  /\ main_log = <<>>
  /\ results = <<>>
  /\ best_regressor = NoRow

\* the simulator is not running
SimLocals ==
  /\ loaded_models = <<>>
  /\ model_i = 1
  /\ all_predictions = <<>>
  /\ signals = <<>>
  /\ cumulative_returns = <<>>
  /\ profit_evolution = [k \in ModelTypes |-> NoColumn]
  /\ profit_plot = FALSE
  /\ sim_log = <<>>
SimIdle ==
  /\ s_pc = "idle"
  /\ pair_name = None
  /\ csv_close = <<>>
  /\ csv_bad_dates = {}
  /\ json_unreadable = {}
  /\ csv_empty = {}
  /\ SimLocals

\* frames: what a function's steps leave alone
\* ------------------------------------------------------------ data_loader
\* a date that pd.to_datetime(errors="coerce") turns into NaT
NaT == 0
DateValues == 0..MaxDate
\* a data row: its date, and whether its close cell is a number
RowValues == DateValues \X BOOLEAN
RowSeries == UNION {[1..len -> RowValues] : len \in 0..MaxLoadRows}
\* header lines of a raw file
Headers ==
  { <<"date", "close">>, <<"Date", "Close", "unix">>, <<"unix", "date", "close">>,
    <<"close", "open">>, <<"date", "open">> }
NoRawFile == [exists |-> FALSE, banner |-> FALSE, header |-> <<>>, rows |-> <<>>]
RawFile(banner, header, rows) ==
  [exists |-> TRUE, banner |-> banner, header |-> header, rows |-> rows]
\* line 46: str.strip().str.lower().str.replace(" ", "_")
normalise(name) ==
  CASE name = "Date" -> "date"
    [] name = "Close" -> "close"
    [] OTHER -> name
\* the raw files tried; a file without a close column has no close cell
RowsUnder(header) ==
  { r \in RowSeries :
      "close" \in {normalise(header[i]) : i \in 1..Len(header)}
        \/ \A i \in 1..Len(r) : r[i][2] }
RawFiles ==
  { file \in [exists : {TRUE}, banner : BOOLEAN, header : Headers, rows : RowSeries] :
      file.rows \in RowsUnder(file.header) }
\* lines 160-162: a first line that is not the header is skipped
skiprows(file) ==
  IF ~file.banner /\ normalise(file.header[1]) = "date" THEN 0 ELSE 1
\* line 164: a file whose header was skipped takes its first data row as
\* the header; a file with nothing after the skipped line cannot be parsed
read_csv(file) ==
  IF skiprows(file) = 0 \/ file.banner
    THEN [raises |-> FALSE, columns |-> file.header, rows |-> file.rows]
    ELSE IF file.rows = <<>>
      THEN [raises |-> TRUE, columns |-> <<>>, rows |-> <<>>]
      ELSE [raises |-> FALSE, columns |-> <<"value">>, rows |-> Tail(file.rows)]
cols_to_drop == {"unix", "symbol", "tradecount"}
NotDropped(name) == name \notin cols_to_drop
NotNaT(row) == row[1] # NaT
\* sort_values("date"): rows with the same date keep their order
RECURSIVE insert_sorted(_, _)
insert_sorted(row, sorted) ==
  IF sorted = <<>> THEN <<row>>
  ELSE IF row[1] <= Head(sorted)[1] THEN <<row>> \o sorted
  ELSE <<Head(sorted)>> \o insert_sorted(row, Tail(sorted))
RECURSIVE sort_values(_)
sort_values(rows) ==
  IF rows = <<>> THEN <<>>
  ELSE insert_sorted(Head(rows), sort_values(Tail(rows)))
\* lines 46-59
process_dataframe(df) ==
  LET columns == [i \in 1..Len(df.columns) |-> normalise(df.columns[i])]
  IN IF "date" \notin Elems(columns)
       THEN [raises |-> TRUE, columns |-> <<>>, rows |-> <<>>]
       ELSE [raises |-> FALSE,
             columns |-> SelectSeq(columns, NotDropped),
             rows |-> sort_values(SelectSeq(df.rows, NotNaT))]
\* lines 83-84: to_numeric(errors="coerce") and dropna(subset=["close"])
CloseIsNumber(row) == row[2]
\* lines 83-112: a frame without close raises KeyError; the rows whose
\* close is not a number are dropped, the indicator columns are added
indicators ==
  <<"daily_return", "moving_average", "volatility", "cumulative_return",
    "short_mavg", "long_mavg", "signal">>
calculate_financial_indicators(df) ==
  IF "close" \notin Elems(df.columns)
    THEN [raises |-> TRUE, columns |-> <<>>, rows |-> <<>>]
    ELSE [raises |-> FALSE, columns |-> df.columns \o indicators,
          rows |-> SelectSeq(df.rows, CloseIsNumber)]
NoneLoaded == [kind |-> "None", columns |-> <<>>, rows |-> <<>>]
NotLoaded == [kind |-> "pending", columns |-> <<>>, rows |-> <<>>]
Frame(df) == [kind |-> "frame", columns |-> df.columns, rows |-> df.rows]
Responses ==
  { [status |-> 200,
     content |-> RawFile(TRUE, <<"unix", "date", "close">>, <<<<2, TRUE>>, <<1, TRUE>>>>)],
    [status |-> 404, content |-> NoRawFile],
    [status |-> 0, content |-> NoRawFile] }

\* no download is running
LdIdle ==
  /\ l_pc = "idle"
  /\ force_download = FALSE
  /\ calculate_indicators = FALSE
  /\ cached = FALSE
  /\ local_file = NoRawFile
  /\ response = [status |-> 0, content |-> NoRawFile]
  /\ requests = 0
  /\ returned_df = NotLoaded
\* config.py lines 77-101
FEATURES_CANDIDATAS ==
  <<"high", "low", "sma_7", "sma_14", "sma_30", "close_lag5", "macd",
    "macd_signal", "macd_diff", "bb_upper", "bb_lower", "bb_mavg",
    "daily_return", "volume", "buytakeramount", "buytakerquantity", "std7",
    "std14", "std30", "volatility_7d", "volatility_30d", "rsi", "obv">>
\* columns a featured table can have besides date and close
FeaturedColumns == <<"date", "open", "high", "volume", "usd_brl", "close">>
FeaturedTables ==
  { keep(FeaturedColumns, present \cup {"date", "close"}) :
      present \in SUBSET {"open", "high", "volume", "usd_brl"} }
\* preprocessing.py line 47: select_dtypes(include=[np.number])
IsNumeric(name) == name # "date"
NotClose(name) == name # "close"
FtIdle ==
  /\ f_pc = "idle"
  /\ use_usd_brl = FALSE
  /\ df_featured = <<>>
  /\ features = <<>>
  /\ offered = <<>>
\* utils.py lines 107-115, with the values of config.py lines 59-65
pastas_com_raw ==
  {"data/output", "data/processed", "data/models", "grafico/plots",
   "grafico/analysis", "grafico/profit_plots", "data/stats_reports", "data/raw"}
pastas_para_limpar ==
  {"data/output", "data/processed", "data/models", "grafico/plots",
   "grafico/analysis", "grafico/profit_plots", "data/stats_reports"}
Folders == pastas_para_limpar \cup {"data/raw"}
\* a file directly in a folder, or in a sub-directory of it
SubDirs == {"", "sub"}
FilePaths == [folder : Folders, sub : SubDirs]
DirPaths == [folder : Folders, sub : SubDirs]
ClIdle ==
  /\ c_pc = "idle"
  /\ action_all = FALSE
  /\ files = {}
  /\ files0 = {}
  /\ dirs = {}
  /\ dirs0 = {}
  /\ locked = {}
  /\ visited = {}
  /\ cl_log = {}
  /\ touched = FALSE
\* external_data.py line 45: timedelta(days=3652)
BlockDays == 3652
StartDates == {0, 1}
Min2(a, b) == IF a <= b THEN a ELSE b
BcIdle ==
  /\ b_pc = "idle"
  /\ start_date = 0
  /\ end_date = 0
  /\ dates_parse = TRUE
  /\ start_dt = 0
  /\ blocks = <<>>
  /\ all_data = 0
  /\ usd_brl_df = "pending"
LmIdle ==
  /\ lm_pc = "idle"
  /\ lm_pair = "BTC_USDT"
  /\ prefix_i = 1
  /\ lm_log = <<>>
IoIdle == LdIdle /\ FtIdle /\ ClIdle /\ BcIdle /\ LmIdle

\* a single call, in a process that has drawn no random number yet
TwIdle ==
  /\ call = 0
  /\ seen = {}
  /\ first_name = None
  /\ np_random = 0
  /\ kf_indices = <<>>

GbFrame == UNCHANGED <<ppVars, trVars, simVars, ioVars>>
PpFrame == UNCHANGED <<gbVars, trVars, simVars, twVars, ioVars>>

\* a direct call of get_best_model_by_mse(X, y, kfolds, test_size=...)
Init ==
  /\ pc = "gb_start"
  /\ n \in RowCounts
  /\ test_size \in TestSizes
  /\ kfolds \in KfoldChoices
  /\ GbIdle
  /\ pp_pc = "idle"
  /\ X_columns = <<>>
  /\ dtypes = <<>>
  /\ vif_threshold = 5
  /\ collinear = {}
  /\ PpIdle
  /\ TrIdle
  /\ SimIdle
  /\ TwIdle
  /\ IoIdle

\* lines 559-593: fresh estimators, reset_index, chronological split,
\* best_* initialised
GbSplit ==
  /\ pc = "gb_start"
  /\ split_index' = IF test_size > 0 THEN split_index_of(n, test_size) ELSE 0
  /\ X_train_full' = train_full_of(n, test_size)
  /\ X_val' = val_of(n, test_size)
  /\ best_model' = None
  /\ best_name' = None
  /\ best_mse' = Inf
  /\ cand' = 1
  /\ fold' = 1
  /\ mse_scores' = <<>>
  /\ fitted' = [m \in ModelNames |-> Unfitted]
  /\ scored' = [m \in ModelNames |-> Pending]
  /\ pc' = "gb_cv"
  /\ UNCHANGED <<n, test_size, kfolds, log, cv_train, cv_test, result>>
  /\ UNCHANGED twVars
  /\ GbFrame

NextCandidate ==
  /\ cand' = cand + 1
  /\ fold' = 1
  /\ mse_scores' = <<>>

\* line 598 with fewer samples than splits: kf.split raises ValueError on
\* its first iteration, inside the try; lines 612-613 log it
GbSplitRaises ==
  /\ pc = "gb_cv"
  /\ cand <= Len(ModelOrder)
  /\ kfolds > Cardinality(X_train_full)
  /\ log' = Append(log, [kind |-> "error", name |-> ModelOrder[cand]])
  /\ scored' = [scored EXCEPT ![ModelOrder[cand]] = Ended("error", mse_scores)]
  /\ NextCandidate
  /\ UNCHANGED <<pc, n, test_size, kfolds, split_index, X_train_full, X_val,
                 best_model, best_name, best_mse, fitted, cv_train, cv_test, result>>
  /\ UNCHANGED twVars
  /\ GbFrame

\* lines 560-573 and 593: the random_state each object is constructed with.
\* MLPRegressor, RandomForestRegressor and KFold(shuffle=True) draw random
\* numbers and are given 42; LinearRegression and the polynomial pipeline
\* take no random_state and draw none
Seed42 == [given |-> TRUE, seed |-> 42]
NoSeed == [given |-> FALSE, seed |-> 0]
Randomized == {"MLP", "RandomForest"}
random_state_unseeded(obj) == IF obj \in {"MLP", "KFold"} THEN Seed42 ELSE NoSeed
random_state(obj) == IF obj \in Randomized \cup {"KFold"} THEN Seed42 ELSE NoSeed

\* the stream an object draws from when it is given random_state rs and
\* the global stream stands at position at: an int seed starts a new
\* RandomState(seed) on every fit and every split, so the stream is the
\* same each time; without one the object draws from numpy's global
\* stream, from where the last draw left it
check_random_state(rs, at) ==
  IF rs.given THEN [from |-> "seed", at |-> rs.seed]
              ELSE [from |-> "global", at |-> at]
stream_of(name, at) ==
  IF name \in Randomized THEN check_random_state(random_state(name), at)
                         ELSE [from |-> "none", at |-> 0]
draws_global(obj) == obj \in Randomized \cup {"KFold"} /\ ~random_state(obj).given

\* line 598: what kf.split can shuffle the m sample positions into. With
\* seed 42 every split starts RandomState(42) anew and gets Shuffle42(m);
\* from the global stream it could be any order
Perms(m) == { p \in [1..m -> 0..(m - 1)] : \A i, j \in 1..m : p[i] = p[j] => i = j }
kf_shuffles(m) ==
  IF check_random_state(random_state("KFold"), np_random) = [from |-> "seed", at |-> 42]
    THEN {Shuffle42(m)}
    ELSE Perms(m)

\* lines 601-603: fit, predict and mean_squared_error on one fold are a
\* computation on the estimator as line 560-573 built it (warm_start is
\* not passed, so fit starts over), the rows fitted, the rows scored
\* and the stream the fit draws from. What that computation gives is not
\* known; that it gives the same for the same four is what seen records
FitKey(name, X_train, X_test, stream) ==
  [name |-> name, train |-> X_train, test |-> X_test, stream |-> stream]
Outcomes(key) ==
  IF \E r \in seen : r.key = key
    THEN { r.outcome : r \in { q \in seen : q.key = key } }
    ELSE FoldOutcomes

\* lines 598-603: one fold of one candidate; the first fold of a candidate
\* starts kf.split, which shuffles the positions
GbFold ==
  /\ pc = "gb_cv"
  /\ cand <= Len(ModelOrder)
  /\ kfolds <= Cardinality(X_train_full)
  /\ fold <= kfolds
  /\ LET name == ModelOrder[cand]
         m == Cardinality(X_train_full)
         at_fit == IF fold = 1 /\ draws_global("KFold") THEN np_random + 1 ELSE np_random
     IN \E indices \in (IF fold = 1 THEN kf_shuffles(m) ELSE {kf_indices}) :
        LET X_train == iloc(X_train_full, train_index_in(indices, m, kfolds, fold))
            X_test == iloc(X_train_full, test_index_in(indices, m, kfolds, fold))
            key == FitKey(name, X_train, X_test, stream_of(name, at_fit))
        IN \E outcome \in Outcomes(key) :
          /\ kf_indices' = indices
          /\ np_random' = IF draws_global(name) THEN at_fit + 1 ELSE at_fit
          \* within one call no fit is met twice: nothing to record
          /\ seen' = IF call = 0 THEN seen
                      ELSE seen \cup {[key |-> key, outcome |-> outcome]}
          /\ cv_train' = cv_train \cup X_train
          /\ cv_test' = IF outcome.kind = "fit_raises" THEN cv_test ELSE cv_test \cup X_test
          /\ fitted' = IF outcome.kind = "fit_raises" THEN fitted
                       ELSE [fitted EXCEPT ![name] = FitOn(X_train)]
          /\ IF outcome.kind = "scored"
               THEN /\ mse_scores' = Append(mse_scores, outcome.mse)
                    /\ fold' = fold + 1
                    /\ UNCHANGED <<cand, log, scored>>
               ELSE \* lines 612-613: the candidate's try block ends here
                    /\ log' = Append(log, [kind |-> "error", name |-> name])
                    /\ scored' = [scored EXCEPT ![name] = Ended("error", mse_scores)]
                    /\ NextCandidate
  /\ UNCHANGED <<pc, n, test_size, kfolds, split_index, X_train_full, X_val,
                 best_model, best_name, best_mse, result>>
  /\ UNCHANGED <<call, first_name>>
  /\ GbFrame

\* lines 605-611: mean of the candidate's scores, strict comparison
GbAverage ==
  /\ pc = "gb_cv"
  /\ cand <= Len(ModelOrder)
  /\ kfolds <= Cardinality(X_train_full)
  /\ fold = kfolds + 1
  /\ LET name == ModelOrder[cand]
         avg_mse == np_mean(mse_scores)
     IN /\ log' = Append(log, [kind |-> "avg", name |-> name])
        /\ scored' = [scored EXCEPT ![name] = Ended("ok", mse_scores)]
        /\ IF MeanLess(avg_mse, best_mse)
             THEN /\ best_mse' = avg_mse
                  /\ best_model' = name
                  /\ best_name' = name
             ELSE UNCHANGED <<best_mse, best_model, best_name>>
  /\ NextCandidate
  /\ UNCHANGED <<pc, n, test_size, kfolds, split_index, X_train_full, X_val,
                 fitted, cv_train, cv_test, result>>
  /\ UNCHANGED twVars
  /\ GbFrame

\* lines 616-629: the winner is refitted on the pool and scored on the
\* hold-out, for the log only
GbHoldOut ==
  /\ pc = "gb_cv"
  /\ cand = Len(ModelOrder) + 1
  /\ best_model # None
  /\ X_val.some
  /\ \E outcome \in {"ok", "fit_raises", "predict_raises"} :
       /\ fitted' = IF outcome = "fit_raises" THEN fitted
                    ELSE [fitted EXCEPT ![best_model] = FitOn(X_train_full)]
       /\ log' = Append(log, IF outcome = "ok"
                               THEN [kind |-> "holdout", name |-> best_name]
                               ELSE [kind |-> "warning", name |-> best_name])
  /\ pc' = "gb_return"
  /\ UNCHANGED <<n, test_size, kfolds, split_index, X_train_full, X_val, cand,
                 fold, mse_scores, best_model, best_name, best_mse, cv_train,
                 cv_test, scored, result>>
  /\ UNCHANGED twVars
  /\ GbFrame

\* line 616 false: nothing is refitted
GbNoHoldOut ==
  /\ pc = "gb_cv"
  /\ cand = Len(ModelOrder) + 1
  /\ ~(best_model # None /\ X_val.some)
  /\ pc' = "gb_return"
  /\ UNCHANGED <<n, test_size, kfolds, split_index, X_train_full, X_val, cand,
                 fold, mse_scores, best_model, best_name, best_mse, fitted, log,
                 cv_train, cv_test, scored, result>>
  /\ UNCHANGED twVars
  /\ GbFrame

\* line 631
GbReturn ==
  /\ pc = "gb_return"
  /\ result' = [returned |-> TRUE, model |-> best_model, name |-> best_name]
  /\ pc' = "done"
  /\ UNCHANGED <<n, test_size, kfolds, split_index, X_train_full, X_val, cand,
                 fold, mse_scores, best_model, best_name, best_mse, fitted, log,
                 cv_train, cv_test, scored>>
  /\ UNCHANGED twVars
  /\ GbFrame

Next ==
  \/ GbSplit
  \/ GbSplitRaises
  \/ GbFold
  \/ GbAverage
  \/ GbHoldOut
  \/ GbNoHoldOut
  \/ GbReturn

Spec == Init /\ [][Next]_vars

\* get_best_model_by_mse called twice with the same arguments
TwiceRows == {1, MaxRows}
TwiceSizes == {0, DefaultTestSize}
InitTwice ==
  /\ pc = "gb_start"
  /\ n \in TwiceRows
  /\ test_size \in TwiceSizes
  /\ kfolds \in MainKfolds
  /\ GbIdle
  /\ pp_pc = "idle"
  /\ X_columns = <<>>
  /\ dtypes = <<>>
  /\ vif_threshold = 5
  /\ collinear = {}
  /\ PpIdle
  /\ TrIdle
  /\ SimIdle
  /\ call = 1
  /\ seen = {}
  /\ first_name = None
  /\ np_random = 0
  /\ kf_indices = <<>>
  /\ IoIdle

\* the first call has returned; the caller calls again with the same
\* arguments. The locals of the first call are gone: whatever they held is
\* overwritten by lines 559-596 before it is read
GbAgain ==
  /\ call = 1
  /\ pc = "done"
  /\ first_name' = result.name
  /\ call' = 2
  /\ pc' = "gb_start"
  /\ result' = NoResult
  /\ UNCHANGED <<n, test_size, kfolds, split_index, X_train_full, X_val, cand,
                 fold, mse_scores, best_model, best_name, best_mse, fitted, log,
                 cv_train, cv_test, scored, seen, np_random, kf_indices>>
  /\ GbFrame

NextTwice ==
  \/ Next
  \/ GbAgain

SpecTwice == InitTwice /\ [][NextTwice]_vars

\* ------------------------ preprocess_features / remove_high_vif_features
\* preprocessing.py line 88 / line 45: the call, X copied
PpStart ==
  /\ pp_pc = "start"
  /\ X_cur' = X_columns
  /\ pp_pc' = "vif_loop"
  /\ UNCHANGED <<X_columns, dtypes, vif_threshold, collinear, vif, dropped, X_vif,
                 k_best_arg, k_best, selected_columns, force_include, pp_out,
                 pp_raise>>
  /\ PpFrame

\* line 47: X.select_dtypes(include=[np.number]); neither text, dates nor
\* booleans are numbers
select_dtypes(cols) == keep(cols, { c \in Elems(cols) : dtypes[c] = "float64" })

\* what the data allows the VIF series of the current columns to be: a
\* single column has nothing to be regressed on (R^2 = 0, or 0/0 for a
\* zero column), and both columns of a collinear pair are above the
\* threshold for as long as both are present
VifSeries ==
  LET X == select_dtypes(X_cur) IN
  { v \in [Elems(X) -> VifValues] :
      /\ Len(X) = 1 => \A c \in Elems(X) : v[c] \in {1, NaN}
      /\ (collinear # {} /\ collinear \subseteq Elems(X))
           => \A c \in collinear : v[c] # NaN /\ v[c] > vif_threshold }

\* lines 47-58: one pass of the while loop: the non-numeric columns go, then
\* the column with the highest VIF if that is above the threshold
VifIterate ==
  /\ pp_pc = "vif_loop"
  /\ \E v \in VifSeries :
       LET X == select_dtypes(X_cur)
           max_vif == vif_max(X, v)
       IN
         /\ vif' = v
         /\ IF exceeds(max_vif, vif_threshold)
              THEN /\ X_cur' = drop(X, vif_idxmax(X, v))
                   /\ dropped' = Append(dropped, vif_idxmax(X, v))
                   /\ pp_pc' = "vif_loop"
              ELSE /\ X_cur' = X
                   /\ pp_pc' = "vif_return"
                   /\ UNCHANGED dropped
  /\ UNCHANGED <<X_columns, dtypes, vif_threshold, collinear, X_vif, k_best_arg, k_best,
                 selected_columns, force_include, pp_out, pp_raise>>
  /\ PpFrame

\* line 49 on a single column: the auxiliary regression has no regressor;
\* depending on the statsmodels / numpy release this gives R^2 = 0
\* (VifIterate) or raises
VifRaises ==
  /\ pp_pc = "vif_loop"
  /\ Len(select_dtypes(X_cur)) = 1
  /\ pp_pc' = "raised"
  /\ pp_raise' = "vif"
  /\ UNCHANGED <<X_columns, dtypes, vif_threshold, collinear, X_cur, vif, dropped, X_vif,
                 k_best_arg, k_best, selected_columns, force_include, pp_out>>
  /\ PpFrame

\* line 59: X is handed back, the VIF series goes with the function's frame
VifReturn ==
  /\ pp_pc = "vif_return"
  /\ X_vif' = X_cur
  /\ vif' = <<>>
  /\ pp_pc' = "scale"
  /\ UNCHANGED <<X_columns, dtypes, vif_threshold, collinear, X_cur, dropped,
                 k_best_arg, k_best, selected_columns, force_include, pp_out,
                 pp_raise>>
  /\ PpFrame

\* lines 91-94: StandardScaler.fit_transform refuses a frame with no column
PpScale ==
  /\ pp_pc = "scale"
  /\ IF X_vif = <<>>
       THEN pp_pc' = "raised" /\ pp_raise' = "scaler"
       ELSE pp_pc' = "select" /\ pp_raise' = pp_raise
  /\ UNCHANGED <<X_columns, dtypes, vif_threshold, collinear, X_cur, vif, dropped, X_vif,
                 k_best_arg, k_best, selected_columns, force_include, pp_out>>
  /\ PpFrame

\* lines 97-100: k_best clamped, SelectKBest fitted on F-scores.
\* SelectKBest with k above the number of columns raises or keeps every
\* column, depending on the scikit-learn release.
PpSelect ==
  /\ pp_pc = "select"
  /\ \E sc \in [Elems(X_vif) -> ScoreValues] :
       LET k == clamp_k(k_best_arg, Len(X_vif)) IN
         /\ k_best' = k
         /\ IF k > Len(X_vif)
              THEN \/ /\ pp_pc' = "raised"
                      /\ pp_raise' = "select"
                      /\ UNCHANGED selected_columns
                   \/ /\ pp_pc' = "force"
                      /\ selected_columns' = X_vif
                      /\ UNCHANGED pp_raise
              ELSE /\ pp_pc' = "force"
                   /\ selected_columns' = get_support(X_vif, sc, k)
                   /\ UNCHANGED pp_raise
  /\ UNCHANGED <<X_columns, dtypes, vif_threshold, collinear, X_cur, vif, dropped, X_vif,
                 k_best_arg, force_include, pp_out>>
  /\ PpFrame

\* lines 103-115: forced columns scaled and appended, the selected columns
\* returned.  (force_include is read here for the first time, and drawn
\* here.)
PpForce ==
  /\ pp_pc = "force"
  /\ \E f \in ForceLists, casts \in BOOLEAN :
       /\ force_include' = f
       /\ IF force_raises(selected_columns, f, X_columns, dtypes, casts)
            THEN /\ pp_pc' = "raised"
                 /\ pp_raise' = "force"
                 /\ UNCHANGED pp_out
            ELSE /\ pp_out' = force_append(selected_columns, f, X_columns)
                 /\ pp_pc' = "done"
                 /\ UNCHANGED pp_raise
  /\ UNCHANGED <<X_columns, dtypes, vif_threshold, collinear, X_cur, vif, dropped, X_vif,
                 k_best_arg, k_best, selected_columns>>
  /\ PpFrame

\* a call of preprocess_features(X, y, vif_threshold, k_best, force_include)
InitPre ==
  /\ pc = "idle"
  /\ n = 0
  /\ test_size = 0
  /\ kfolds = 2
  /\ GbIdle
  /\ pp_pc = "start"
  /\ X_columns \in { ColumnsOf(m) : m \in 0..MaxCols }
  /\ dtypes \in DtypeChoices(X_columns)
  /\ vif_threshold \in Thresholds
  /\ collinear \in {{}} \cup { pr \in SUBSET Elems(select_dtypes(X_columns)) :
                                Cardinality(pr) = 2 }
  /\ k_best_arg \in KBestChoices
  /\ PpLocals
  /\ TrIdle
  /\ SimIdle
  /\ TwIdle
  /\ IoIdle

NextPre ==
  \/ PpStart
  \/ VifIterate
  \/ VifRaises
  \/ VifReturn
  \/ PpScale
  \/ PpSelect
  \/ PpForce

SpecPre == InitPre /\ [][NextPre]_vars
\* the loop is a sequential program: a step that can be taken is taken
SpecPreFair == SpecPre /\ WF_vars(NextPre)

\* -------------------------------------------------- main, the train action
\* a fresh frame for a call: the callee's locals
FreshFrame ==
  /\ split_index' = 0
  /\ X_train_full' = {}
  /\ X_val' = [some |-> FALSE, rows |-> {}]
  /\ cand' = 1
  /\ fold' = 1
  /\ mse_scores' = <<>>
  /\ best_model' = None
  /\ best_name' = None
  /\ best_mse' = Inf
  /\ fitted' = [m \in ModelNames |-> Unfitted]
  /\ log' = <<>>
  /\ cv_train' = {}
  /\ cv_test' = {}
  /\ scored' = [m \in ModelNames |-> Pending]
  /\ result' = NoResult
  /\ results' = <<>>
  /\ best_regressor' = NoRow

Call(entry, rows, ts, k) ==
  /\ pc' = entry
  /\ n' = rows
  /\ test_size' = ts
  /\ kfolds' = k
  /\ FreshFrame

\* nothing is running: the frame of the last call is gone
NoCall == Call("idle", 0, 0, 2)

pair_key == AllProcessed[sym]
AllRows(frame) == 0..(frame.rows - 1)

\* model_training.py lines 135 and 192: {"model": model, "features": [...]}
Bundle(rows, columns) ==
  [kind |-> "bundle", fit_rows |-> rows, fit_columns |-> columns, features |-> columns]
\* main.py line 365: joblib.dump(best_model, model_path)
BareModel(rows, columns) ==
  [kind |-> "bare", fit_rows |-> rows, fit_columns |-> columns, features |-> <<>>]

\* main.py lines 387-389
no_best_silent(pair) == <<>>
no_best_log(pair) == <<[kind |-> "warning", pair |-> pair]>>

\* what the call of preprocess_features in main can do
PreOutcomes(pair) ==
  {[raises |-> TRUE, columns |-> <<>>],
   [raises |-> FALSE, columns |-> FeaturesOf(pair)]}
\* a model.fit followed by joblib.dump; a write opens its target, which
\* empties it, before the content is serialised: it raises either on the
\* open or once the file is open
SaveOutcomes == {"ok", "fit_raises", "dump_open_raises", "dump_write_raises"}
\* main.py lines 358-374: to_csv, best_model.fit, joblib.dump and the writing
\* of the feature list, each of which can raise
BestOutcomes ==
  {"ok", "csv_open_raises", "csv_write_raises", "fit_raises", "dump_open_raises",
   "dump_write_raises", "json_open_raises", "json_write_raises"}
\* joblib.dump(artifact, <key>.pkl): a dump that fails once the file is open
\* leaves a file joblib.load fails on
dumped(folder, key, outcome, artifact) ==
  CASE outcome = "ok" -> [folder EXCEPT ![key] = artifact]
    [] outcome = "dump_write_raises" -> [folder EXCEPT ![key] = Unloadable]
    [] OTHER -> folder
HoldOutcomes == {"ok", "fit_raises", "predict_raises"}

\* main.py lines 281-314: the loop head, the mask on close, and
\* preprocess_features, whose pipeline is the one of SpecPre; here it
\* either raises (always on a frame without rows: StandardScaler refuses
\* it) or hands back a frame with the rows it was given
MainPreprocess ==
  /\ m_pc = "loop"
  /\ sym <= Len(AllProcessed)
  /\ \E rows \in MainRows : \E outcome \in PreOutcomes(pair_key) :
       /\ rows = 0 => outcome.raises
       /\ IF outcome.raises
            THEN /\ m_pc' = "crashed"
                 /\ UNCHANGED <<X_clean, sym, main_log>>
            ELSE /\ X_clean' = [rows |-> rows, columns |-> outcome.columns]
                 /\ IF rows = 0 \/ outcome.columns = <<>>
                      THEN /\ main_log' = Append(main_log, [kind |-> "empty", pair |-> pair_key])
                           /\ sym' = sym + 1
                           /\ m_pc' = "loop"
                      ELSE /\ m_pc' = "train"
                           /\ UNCHANGED <<sym, main_log>>
  /\ UNCHANGED <<gbVars, ppVars, simVars, twVars, ioVars, args, models_folder, features_json,
                 preprocessed_csv, plots, results, best_regressor>>

\* main.py lines 317-329
MainTrainModel ==
  /\ m_pc = "train"
  /\ args.model # None
  /\ Call("te_start", X_clean.rows, args.validation_split, args.kfolds)
  /\ m_pc' = "in_te"
  /\ UNCHANGED <<ppVars, simVars, twVars, ioVars, args, sym, X_clean, models_folder, features_json,
                 preprocessed_csv, plots, main_log>>

\* main.py lines 340-348: test_size is not passed
MainAuto ==
  /\ m_pc = "train"
  /\ args.model = None
  /\ Call("gb_start", X_clean.rows, DefaultTestSize, args.kfolds)
  /\ m_pc' = "in_gb"
  /\ UNCHANGED <<ppVars, simVars, twVars, ioVars, args, sym, X_clean, models_folder, features_json,
                 preprocessed_csv, plots, main_log>>

\* main.py lines 330-339, once train_and_evaluate_model has returned
MainAfterTrain ==
  /\ m_pc = "in_te"
  /\ pc = "te_done"
  /\ Call("cm_start", X_clean.rows, args.validation_split, args.kfolds)
  /\ m_pc' = "in_cm"
  /\ UNCHANGED <<ppVars, simVars, twVars, ioVars, args, sym, X_clean, models_folder, features_json,
                 preprocessed_csv, plots, main_log>>

\* main.py lines 350-374: the table, the estimator and the feature list are
\* written in this order, up to the first step that raises
Persist(outcome, best) ==
  /\ preprocessed_csv' =
       CASE outcome = "csv_open_raises" -> preprocessed_csv
         [] outcome = "csv_write_raises" -> [preprocessed_csv EXCEPT ![pair_key] = <<>>]
         [] OTHER -> [preprocessed_csv EXCEPT
                        ![pair_key] = X_clean.columns \o <<"close", "date">>]
  /\ csv_empty' =
       CASE outcome = "csv_open_raises" -> csv_empty
         [] outcome = "csv_write_raises" -> csv_empty \cup {pair_key}
         [] OTHER -> csv_empty \ {pair_key}
  /\ models_folder' =
       CASE outcome = "dump_write_raises" ->
              [models_folder EXCEPT ![<<pair_key, best>>] = Unloadable]
         [] outcome \in {"ok", "json_open_raises", "json_write_raises"} ->
              [models_folder EXCEPT ![<<pair_key, best>>] =
                 BareModel(AllRows(X_clean), X_clean.columns)]
         [] OTHER -> models_folder
  /\ features_json' =
       CASE outcome = "ok" -> [features_json EXCEPT ![pair_key] = X_clean.columns]
         [] outcome = "json_write_raises" -> [features_json EXCEPT ![pair_key] = <<>>]
         [] OTHER -> features_json
  /\ json_unreadable' =
       CASE outcome = "ok" -> json_unreadable \ {pair_key}
         [] outcome = "json_write_raises" -> json_unreadable \cup {pair_key}
         [] OTHER -> json_unreadable
\* what of the simulator main does not write
simRun == <<s_pc, pair_name, csv_close, csv_bad_dates, loaded_models, model_i,
            all_predictions, signals, cumulative_returns, profit_evolution,
            profit_plot, sim_log>>

\* main.py lines 350-389, once get_best_model_by_mse has returned
MainAfterBest ==
  /\ m_pc = "in_gb"
  /\ pc = "done"
  /\ IF result.model # None
       THEN \E outcome \in BestOutcomes :
              /\ Persist(outcome, lower(result.name))
              /\ IF outcome = "ok"
                   THEN /\ Call("cm_start", X_clean.rows, args.validation_split,
                                args.kfolds)
                        /\ m_pc' = "in_cm"
                   ELSE /\ m_pc' = "crashed"
                        /\ NoCall
              /\ UNCHANGED <<sym, main_log>>
       ELSE /\ main_log' = main_log \o no_best_log(pair_key)
            /\ sym' = sym + 1
            /\ m_pc' = "loop"
            /\ NoCall
            /\ UNCHANGED <<models_folder, features_json, preprocessed_csv,
                           json_unreadable, csv_empty>>
  /\ UNCHANGED <<ppVars, simRun, twVars, ioVars, args, X_clean, plots>>

\* the end of one pass of the loop body
MainAfterCompare ==
  /\ m_pc = "in_cm"
  /\ pc = "cm_done"
  /\ sym' = sym + 1
  /\ m_pc' = "loop"
  /\ NoCall
  /\ UNCHANGED <<ppVars, simVars, twVars, ioVars, args, X_clean, models_folder, features_json,
                 preprocessed_csv, plots, main_log>>

\* no try surrounds the calls: an exception leaving a callee leaves main
MainCrash ==
  /\ m_pc \in {"in_te", "in_cm"}
  /\ pc = "raised"
  /\ m_pc' = "crashed"
  /\ NoCall
  /\ UNCHANGED <<ppVars, simVars, twVars, ioVars, args, sym, X_clean, models_folder, features_json,
                 preprocessed_csv, plots, main_log>>

\* the loop is exhausted
MainDone ==
  /\ m_pc = "loop"
  /\ sym > Len(AllProcessed)
  /\ m_pc' = "done"
  /\ UNCHANGED <<gbVars, ppVars, simVars, twVars, ioVars, args, sym, X_clean, models_folder,
                 features_json, preprocessed_csv, plots, main_log, results,
                 best_regressor>>

\* ------------------------------------------------ train_and_evaluate_model
TeFrame ==
  /\ UNCHANGED <<n, test_size, kfolds, cand, best_model, best_name, best_mse,
                 cv_train, cv_test, scored, result>>
  /\ UNCHANGED <<ppVars, simVars, twVars, ioVars>>
  /\ UNCHANGED <<m_pc, args, sym, X_clean, features_json, preprocessed_csv,
                 plots, main_log, results, best_regressor>>

\* line 104
degree_from_one(poly_degree) == 1 <= poly_degree /\ poly_degree <= 10
degree_in_range(poly_degree) == 2 <= poly_degree /\ poly_degree <= 10

\* lines 83-143: the two configuration checks, the split, and the
\* fallback for a table shorter than kfolds
TeStart ==
  /\ pc = "te_start"
  /\ LET model_type == args.model
         invalid == model_type \notin ModelNames
         bad_degree == /\ model_type = "Polynomial"
                       /\ ~degree_in_range(args.poly_degree)
         X_reset == 0..(n - 1)
         warning == [kind |-> "warning", name |-> model_type]
         error == [kind |-> "error", name |-> model_type]
     IN \E outcome \in SaveOutcomes :
          IF invalid \/ bad_degree
            THEN /\ log' = Append(log, error)
                 /\ pc' = "te_done"
                 /\ UNCHANGED <<split_index, X_train_full, X_val, fitted,
                                models_folder>>
            ELSE /\ split_index' = IF test_size > 0
                                     THEN split_index_of(n, test_size) ELSE 0
                 /\ X_train_full' = train_full_of(n, test_size)
                 /\ X_val' = val_of(n, test_size)
                 /\ IF n < kfolds
                      THEN /\ pc' = "te_done"
                           /\ log' = IF n > 0 /\ outcome # "ok"
                                       THEN log \o <<warning, error>>
                                       ELSE Append(log, warning)
                           /\ fitted' = IF n > 0 /\ outcome # "fit_raises"
                                          THEN [fitted EXCEPT ![model_type] = FitOn(X_reset)]
                                          ELSE fitted
                           /\ models_folder' =
                                IF n > 0
                                  THEN dumped(models_folder,
                                              <<pair_key, lower(model_type)>>, outcome,
                                              Bundle(X_reset, X_clean.columns))
                                  ELSE models_folder
                      ELSE /\ pc' = "te_cv"
                           /\ UNCHANGED <<log, fitted, models_folder>>
  /\ fold' = 1
  /\ mse_scores' = <<>>
  /\ TeFrame

\* line 149 with a pool shorter than kfolds: kf.split raises ValueError,
\* outside any try
TeSplitRaises ==
  /\ pc = "te_cv"
  /\ kfolds > Cardinality(X_train_full)
  /\ pc' = "raised"
  /\ UNCHANGED <<split_index, X_train_full, X_val, fold, mse_scores, fitted,
                 log, models_folder>>
  /\ TeFrame

\* lines 149-164: one fold; an exception leaves NaN in the fold's slot
TeFold ==
  /\ pc = "te_cv"
  /\ kfolds <= Cardinality(X_train_full)
  /\ fold <= kfolds
  /\ LET model_type == args.model
         m == Cardinality(X_train_full)
         X_train == iloc(X_train_full, train_index(m, kfolds, fold))
     IN \E outcome \in FoldOutcomes :
          /\ fitted' = IF outcome.kind = "fit_raises" THEN fitted
                       ELSE [fitted EXCEPT ![model_type] = FitOn(X_train)]
          /\ mse_scores' = Append(mse_scores,
                                  IF outcome.kind = "scored" THEN outcome.mse ELSE NaN)
          /\ log' = IF outcome.kind = "scored" THEN log
                    ELSE Append(log, [kind |-> "error", name |-> model_type])
  /\ fold' = fold + 1
  /\ UNCHANGED <<pc, split_index, X_train_full, X_val, models_folder>>
  /\ TeFrame

\* lines 166-197: the means, the hold-out evaluation, the final fit on
\* every row and the dump
TeFinish ==
  /\ pc = "te_cv"
  /\ kfolds <= Cardinality(X_train_full)
  /\ fold = kfolds + 1
  /\ LET model_type == args.model
         X_reset == 0..(n - 1)
         holdout == test_size > 0 /\ X_val.some
     IN \E hold \in HoldOutcomes : \E save \in SaveOutcomes :
          IF ~all_nan(mse_scores)
            THEN /\ log' = log
                      \o (IF ~holdout THEN <<>>
                          ELSE IF hold = "ok"
                            THEN <<[kind |-> "holdout", name |-> model_type]>>
                            ELSE <<[kind |-> "error", name |-> model_type]>>)
                      \o (IF save = "ok" THEN <<>>
                          ELSE <<[kind |-> "error", name |-> model_type]>>)
                 /\ fitted' =
                      IF save # "fit_raises"
                        THEN [fitted EXCEPT ![model_type] = FitOn(X_reset)]
                        ELSE IF holdout /\ hold # "fit_raises"
                          THEN [fitted EXCEPT ![model_type] = FitOn(X_train_full)]
                          ELSE fitted
                 /\ models_folder' =
                      dumped(models_folder, <<pair_key, lower(model_type)>>, save,
                             Bundle(X_reset, X_clean.columns))
            ELSE /\ log' = Append(log, [kind |-> "warning", name |-> model_type])
                 /\ UNCHANGED <<fitted, models_folder>>
  /\ pc' = "te_done"
  /\ UNCHANGED <<split_index, X_train_full, X_val, fold, mse_scores>>
  /\ TeFrame

\* a direct call of train_and_evaluate_model: model_type and poly_degree
\* are the caller's, on a frame with columns B, A for the first pair
TeModelTypes == ModelNames \cup {"SVR"}
TeDegrees == {1, 2, 10, 11}
InitTe ==
  /\ pc = "te_start"
  /\ n \in RowCounts
  /\ test_size \in TestSizes
  /\ kfolds \in KfoldChoices
  /\ GbIdle
  /\ pp_pc = "idle"
  /\ X_columns = <<>>
  /\ dtypes = <<>>
  /\ vif_threshold = 5
  /\ collinear = {}
  /\ PpIdle
  /\ m_pc = "direct"
  /\ \E model_type \in TeModelTypes : \E poly_degree \in TeDegrees :
       args = [model |-> model_type, kfolds |-> kfolds,
               validation_split |-> test_size, poly_degree |-> poly_degree]
  /\ sym = 1
  /\ X_clean = [rows |-> n, columns |-> FeaturesOf(AllProcessed[1])]
  /\ models_folder = [f \in Pairs \X ModelTypes |-> NoFile]
  /\ features_json = [p \in Pairs |-> <<>>]
  /\ preprocessed_csv = [p \in Pairs |-> <<>>]
  /\ plots = {}
  /\ main_log = <<>>
  /\ results = <<>>
  /\ best_regressor = NoRow
  /\ SimIdle
  /\ TwIdle
  /\ IoIdle

NextTe ==
  \/ TeStart
  \/ TeSplitRaises
  \/ TeFold
  \/ TeFinish

SpecTe == InitTe /\ [][NextTe]_vars

\* ---------------------------------------------------------- compare_models
\* the estimators of compare_models are local to the call and nothing
\* reads them once it has returned; of its log only the records that tell
\* how the call went on are kept
CmFrame ==
  /\ UNCHANGED <<n, test_size, kfolds, best_model, best_name, best_mse, fitted,
                 cv_train, cv_test, scored, result>>
  /\ UNCHANGED <<ppVars, simVars, twVars, ioVars>>
  /\ UNCHANGED <<m_pc, args, sym, X_clean, models_folder, features_json,
                 preprocessed_csv, main_log>>

\* lines 232-271
CmStart ==
  /\ pc = "cm_start"
  /\ split_index' = IF test_size > 0 THEN split_index_of(n, test_size) ELSE 0
  /\ X_train_full' = train_full_of(n, test_size)
  /\ X_val' = val_of(n, test_size)
  /\ results' = <<>>
  /\ best_regressor' = NoRow
  /\ cand' = 1
  /\ fold' = 1
  /\ mse_scores' = <<>>
  /\ IF n < kfolds
       THEN /\ log' = Append(log, [kind |-> "warning", name |-> "kfolds"])
            /\ pc' = "cm_done"
       ELSE /\ pc' = "cm_cv"
            /\ UNCHANGED log
  /\ UNCHANGED plots
  /\ CmFrame

\* line 278 with a pool shorter than kfolds: kf.split raises ValueError,
\* outside any try
CmSplitRaises ==
  /\ pc = "cm_cv"
  /\ cand <= Len(CmOrder)
  /\ kfolds > Cardinality(X_train_full)
  /\ pc' = "raised"
  /\ UNCHANGED <<split_index, X_train_full, X_val, cand, fold, mse_scores, log,
                 results, best_regressor, plots>>
  /\ CmFrame

\* lines 278-298: one fold of one model
CmFold ==
  /\ pc = "cm_cv"
  /\ cand <= Len(CmOrder)
  /\ kfolds <= Cardinality(X_train_full)
  /\ fold <= kfolds
  /\ \E outcome \in FoldOutcomes :
       mse_scores' = Append(mse_scores,
                            IF outcome.kind = "scored" THEN outcome.mse ELSE NaN)
  /\ fold' = fold + 1
  /\ UNCHANGED <<pc, split_index, X_train_full, X_val, cand, log, results,
                 best_regressor, plots>>
  /\ CmFrame

\* lines 300-323: the model's hold-out evaluation and its row of results;
\* line 339 (idxmin: the first row with the lowest Avg MSE) is kept up to
\* date as rows are appended
CmModelDone ==
  /\ pc = "cm_cv"
  /\ cand <= Len(CmOrder)
  /\ kfolds <= Cardinality(X_train_full)
  /\ fold = kfolds + 1
  /\ LET model_name == CmOrder[cand]
         avg == np_nanmean(mse_scores)
     IN IF all_nan(mse_scores)
          THEN UNCHANGED <<results, best_regressor>>
          ELSE /\ results' = Append(results, model_name)
               /\ best_regressor' = IF MeanLess(avg, best_regressor.mse)
                                      THEN [Model |-> model_name, mse |-> avg]
                                      ELSE best_regressor
  /\ cand' = cand + 1
  /\ fold' = 1
  /\ mse_scores' = <<>>
  /\ UNCHANGED <<pc, split_index, X_train_full, X_val, log, plots>>
  /\ CmFrame

\* lines 325-361: the table, the two scatter plots, the best regressor,
\* the coefficients
CmFinish ==
  /\ pc = "cm_cv"
  /\ cand = Len(CmOrder) + 1
  /\ IF results = <<>>
       THEN /\ log' = Append(log, [kind |-> "warning", name |-> "results"])
            /\ UNCHANGED plots
       ELSE /\ plots' = plots
                 \cup (IF test_size > 0 /\ X_val.some
                         THEN {<<"scatter_holdout", pair_key>>} ELSE {})
                 \cup {<<"scatter_plot_models", pair_key>>}
            /\ log' = Append(log, [kind |-> "best", name |-> best_regressor.Model])
  /\ pc' = "cm_done"
  /\ UNCHANGED <<split_index, X_train_full, X_val, cand, fold, mse_scores,
                 results, best_regressor>>
  /\ CmFrame

\* python main.py --action train with the featured frames loaded
InitTrain ==
  /\ pc = "idle"
  /\ n = 0
  /\ test_size = 0
  /\ kfolds = 2
  /\ GbIdle
  /\ pp_pc = "idle"
  /\ X_columns = <<>>
  /\ dtypes = <<>>
  /\ vif_threshold = 5
  /\ collinear = {}
  /\ PpIdle
  /\ m_pc = "loop"
  /\ args \in ArgsChoices
  /\ sym = 1
  /\ X_clean = NoFrame
  /\ models_folder = [f \in Pairs \X ModelTypes |-> NoFile]
  /\ features_json = [p \in Pairs |-> <<>>]
  /\ preprocessed_csv = [p \in Pairs |-> <<>>]
  /\ plots = {}
  /\ main_log = <<>>
  /\ results = <<>>
  /\ best_regressor = NoRow
  /\ SimIdle
  /\ TwIdle
  /\ IoIdle

NextTrain ==
  \/ MainPreprocess
  \/ MainTrainModel
  \/ MainAuto
  \/ MainAfterTrain
  \/ MainAfterBest
  \/ MainAfterCompare
  \/ MainCrash
  \/ MainDone
  \/ GbSplit
  \/ GbSplitRaises
  \/ GbFold
  \/ GbAverage
  \/ GbHoldOut
  \/ GbNoHoldOut
  \/ GbReturn
  \/ TeStart
  \/ TeSplitRaises
  \/ TeFold
  \/ TeFinish
  \/ CmStart
  \/ CmSplitRaises
  \/ CmFold
  \/ CmModelDone
  \/ CmFinish

SpecTrain == InitTrain /\ [][NextTrain]_vars

\* ------------------------------------------- simulate_investment_and_profit
SimFrame == UNCHANGED <<gbVars, ppVars, trVars, twVars, ioVars>>

ModelFile(key) == models_folder[<<pair_name, key>>]
Loads(key) == ModelFile(key).kind \in {"bare", "bundle"}
\* lines 79-87: what the loading loop logs for one model type
LoadRecord(key) ==
  [kind |-> CASE ModelFile(key).kind = "absent" -> "warning"
              [] ModelFile(key).kind = "unloadable" -> "error"
              [] OTHER -> "info",
   key |-> key]
Logged(rec) == rec.kind # "info"
\* line 118 and lines 124-129
json_exists == features_json[pair_name] # <<>> \/ pair_name \in json_unreadable
\* line 132
missing == { f \in Elems(features_json[pair_name]) :
               f \notin Elems(preprocessed_csv[pair_name]) }
\* line 111: the rows left by dropna(subset=["date"])
kept_rows == (1..Len(csv_close)) \ csv_bad_dates

\* lines 69-111: the models are loaded, the pre-processed file is read
SimLoad ==
  /\ s_pc = "start"
  /\ LET loaded == SelectSeq(model_types, Loads)
         load_log == SelectSeq([i \in 1..Len(model_types) |-> LoadRecord(model_types[i])],
                               Logged)
         columns == Elems(preprocessed_csv[pair_name])
     IN /\ loaded_models' = loaded
        /\ IF loaded = <<>>
             THEN /\ sim_log' = Append(load_log, [kind |-> "error", key |-> "no_models"])
                  /\ s_pc' = "returned"
             ELSE IF pair_name \in csv_empty
               THEN \* line 101: read_csv raises EmptyDataError, nothing catches it
                    /\ sim_log' = load_log
                    /\ s_pc' = "raised"
             ELSE IF preprocessed_csv[pair_name] = <<>>
               THEN /\ sim_log' = Append(load_log, [kind |-> "warning", key |-> "no_csv"])
                    /\ s_pc' = "returned"
               ELSE IF "date" \notin columns \/ "close" \notin columns
                 THEN /\ sim_log' = Append(load_log, [kind |-> "warning", key |-> "bad_csv"])
                      /\ s_pc' = "returned"
                 ELSE /\ sim_log' = load_log
                      /\ s_pc' = "models"
  /\ model_i' = 1
  /\ UNCHANGED <<pair_name, csv_close, csv_bad_dates, json_unreadable, csv_empty,
                 all_predictions, signals, cumulative_returns, profit_evolution,
                 profit_plot>>
  /\ SimFrame

\* lines 113-160: one pass of the loop over loaded_models
SimModel ==
  /\ s_pc = "models"
  /\ model_i <= Len(loaded_models)
  /\ LET model_key == loaded_models[model_i]
         skip(kind, what) ==
           /\ sim_log' = Append(sim_log, [kind |-> kind, key |-> what])
           /\ model_i' = model_i + 1
           /\ UNCHANGED <<s_pc, all_predictions, signals, cumulative_returns,
                          profit_evolution>>
     IN IF ~json_exists THEN skip("warning", "no_json")
        ELSE IF pair_name \in json_unreadable THEN skip("error", "bad_json")
        ELSE IF missing # {} THEN skip("warning", "missing_features")
        ELSE IF ModelFile(model_key).kind = "bundle" \/ Len(csv_close) = 0
          THEN \* line 146: a dict has no predict; an estimator refuses
               \* a frame without rows
               /\ s_pc' = "raised"
               /\ UNCHANGED <<model_i, all_predictions, signals, cumulative_returns,
                              profit_evolution, sim_log>>
          ELSE \E pred \in [1..Len(csv_close) -> PredValues] :
                 LET sig == shift_fill(raw_signals(pred, csv_close))
                     daily_returns == pct_change(csv_close)
                     cumulative == cumprod(strategy_returns(daily_returns, sig))
                 IN /\ all_predictions' = pred
                    /\ signals' = sig
                    /\ cumulative_returns' = cumulative
                    /\ profit_evolution' = [profit_evolution EXCEPT ![model_key] =
                         Column(kept_rows,
                                [t \in kept_rows |->
                                   FracMul(<<INITIAL_INVESTMENT, 1>>, cumulative[t])])]
                    /\ model_i' = model_i + 1
                    /\ UNCHANGED <<s_pc, sim_log>>
  /\ UNCHANGED <<pair_name, csv_close, csv_bad_dates, json_unreadable, csv_empty,
                 loaded_models, profit_plot>>
  /\ SimFrame

\* lines 162-184: the figure is drawn and saved
SimPlot ==
  /\ s_pc = "models"
  /\ model_i > Len(loaded_models)
  /\ profit_plot' = TRUE
  /\ s_pc' = "returned"
  /\ UNCHANGED <<pair_name, csv_close, csv_bad_dates, json_unreadable, csv_empty,
                 loaded_models, model_i, all_predictions, signals,
                 cumulative_returns, profit_evolution, sim_log>>
  /\ SimFrame

\* the models folder the simulator finds: which <type>_<pair>.pkl exist
\* and what they hold
SimFeatures == <<"B", "A">>
Trained == BareModel(0..(MaxSimRows - 1), SimFeatures)
Bundled == Bundle(0..(MaxSimRows - 1), SimFeatures)
FolderCases ==
  { [mlp |-> NoFile, linear |-> NoFile, polynomial |-> NoFile, randomforest |-> NoFile],
    [mlp |-> Unloadable, linear |-> NoFile, polynomial |-> NoFile, randomforest |-> NoFile],
    [mlp |-> NoFile, linear |-> Trained, polynomial |-> NoFile, randomforest |-> NoFile],
    [mlp |-> Trained, linear |-> NoFile, polynomial |-> NoFile, randomforest |-> Trained],
    [mlp |-> NoFile, linear |-> Bundled, polynomial |-> NoFile, randomforest |-> NoFile],
    [mlp |-> Unloadable, linear |-> NoFile, polynomial |-> Trained, randomforest |-> NoFile],
    [mlp |-> NoFile, linear |-> Trained, polynomial |-> Bundled, randomforest |-> NoFile] }
CsvCases ==
  { <<>>, SimFeatures, SimFeatures \o <<"close", "date">>, <<"A", "close", "date">> }

\* a call of simulate_investment_and_profit for one pair
InitSim ==
  /\ pc = "idle"
  /\ n = 0
  /\ test_size = 0
  /\ kfolds = 2
  /\ GbIdle
  /\ pp_pc = "idle"
  /\ X_columns = <<>>
  /\ dtypes = <<>>
  /\ vif_threshold = 5
  /\ collinear = {}
  /\ PpIdle
  /\ m_pc = "direct"
  /\ args = NoArgs
  /\ sym = 0
  /\ X_clean = NoFrame
  /\ plots = {}
  /\ main_log = <<>>
  /\ results = <<>>
  /\ best_regressor = NoRow
  /\ s_pc = "start"
  /\ pair_name = "BTC_USDT"
  /\ \E folder \in FolderCases :
       models_folder = [f \in Pairs \X ModelTypes |->
                          IF f[1] = pair_name THEN folder[f[2]] ELSE NoFile]
  /\ \E columns \in CsvCases :
       /\ preprocessed_csv = [p \in Pairs |-> IF p = pair_name THEN columns ELSE <<>>]
       /\ csv_close \in IF "close" \in Elems(columns) THEN CloseSeries ELSE {<<>>}
       /\ csv_empty \in IF columns = <<>> THEN {{}, {pair_name}} ELSE {{}}
  /\ csv_bad_dates \in {{}, {1}, {Len(csv_close)}} \cap SUBSET (1..Len(csv_close))
  /\ \E json \in {"absent", "unreadable", "ok"} :
       /\ features_json = [p \in Pairs |->
                             IF p = pair_name /\ json = "ok" THEN SimFeatures ELSE <<>>]
       /\ json_unreadable = IF json = "unreadable" THEN {pair_name} ELSE {}
  /\ SimLocals
  /\ TwIdle
  /\ IoIdle

NextSim ==
  \/ SimLoad
  \/ SimModel
  \/ SimPlot

SpecSim == InitSim /\ [][NextSim]_vars

\* python main.py --action train without --model, run again over the
\* models folder an earlier automatic run left for the first pair: one
\* estimator of some type, and the feature list it was fitted on
PriorColumns == {FeaturesOf(p) : p \in Pairs}
PriorType == "linear"
\* the plots that run's compare_models (main.py lines 376-385) left for the
\* pair: the scatter plot of the models and, when the run had a validation
\* split, the one of the hold-out
PriorPlots ==
  { {<<"scatter_plot_models", AllProcessed[1]>>} \cup holdout :
      holdout \in {{}, {<<"scatter_holdout", AllProcessed[1]>>}} }
InitRerun ==
  /\ pc = "idle"
  /\ n = 0
  /\ test_size = 0
  /\ kfolds = 2
  /\ GbIdle
  /\ pp_pc = "idle"
  /\ X_columns = <<>>
  /\ dtypes = <<>>
  /\ vif_threshold = 5
  /\ collinear = {}
  /\ PpIdle
  /\ m_pc = "loop"
  /\ args \in {a \in ArgsChoices : a.model = None}
  /\ sym = 1
  /\ X_clean = NoFrame
  /\ \E columns \in PriorColumns :
       /\ models_folder = [f \in Pairs \X ModelTypes |->
            IF f = <<AllProcessed[1], PriorType>>
              THEN BareModel(0..(MaxRows - 1), columns) ELSE NoFile]
       /\ features_json = [p \in Pairs |->
            IF p = AllProcessed[1] THEN columns ELSE <<>>]
       /\ preprocessed_csv = [p \in Pairs |->
            IF p = AllProcessed[1] THEN columns \o <<"close", "date">> ELSE <<>>]
  /\ plots \in PriorPlots
  /\ main_log = <<>>
  /\ results = <<>>
  /\ best_regressor = NoRow
  /\ SimIdle
  /\ TwIdle
  /\ IoIdle

NextRerun ==
  \/ MainPreprocess
  \/ MainAuto
  \/ MainAfterBest
  \/ MainAfterCompare
  \/ MainDone
  \/ GbSplit
  \/ GbSplitRaises
  \/ GbFold
  \/ GbAverage
  \/ GbHoldOut
  \/ GbNoHoldOut
  \/ GbReturn
  \/ CmStart
  \/ CmFold
  \/ CmModelDone
  \/ CmFinish

SpecRerun == InitRerun /\ [][NextRerun]_vars

\* ---------------------------------------------------------- load_crypto_data
LdFrame == UNCHANGED <<gbVars, ppVars, trVars, simVars, twVars, ftVars, clVars, bcVars, lmVars>>

\* main.py lines 197-205: the download step calls load_crypto_data with
\* calculate_indicators=False; args.force_download is not read
MainDownload ==
  /\ l_pc = "main"
  /\ calculate_indicators' = FALSE
  /\ l_pc' = "start"
  /\ UNCHANGED <<force_download, cached, local_file, response, requests, returned_df>>
  /\ LdFrame

\* lines 141-158: the file is fetched when it is not there
LoadFetch ==
  /\ l_pc = "start"
  /\ IF local_file.exists
       THEN /\ l_pc' = "read"
            /\ UNCHANGED <<local_file, requests, returned_df>>
       ELSE /\ requests' = requests + 1
            /\ IF response.status = 200
                 THEN /\ local_file' = response.content
                      /\ l_pc' = "read"
                      /\ UNCHANGED returned_df
                 ELSE \* another status, or requests.RequestException
                      /\ returned_df' = NoneLoaded
                      /\ l_pc' = "returned"
                      /\ UNCHANGED local_file
  /\ UNCHANGED <<force_download, calculate_indicators, cached, response>>
  /\ LdFrame

\* lines 159-174: the file is read and processed; any exception gives None
LoadRead ==
  /\ l_pc = "read"
  /\ LET df == read_csv(local_file)
         processed_df == process_dataframe(df)
         with_indicators == calculate_financial_indicators(processed_df)
     IN returned_df' =
          IF df.raises \/ processed_df.raises THEN NoneLoaded
          ELSE IF calculate_indicators /\ processed_df.rows # <<>>
            THEN IF with_indicators.raises THEN NoneLoaded
                 ELSE Frame(with_indicators)
            ELSE Frame(processed_df)
  /\ l_pc' = "returned"
  /\ UNCHANGED <<force_download, calculate_indicators, cached, local_file,
                 response, requests>>
  /\ LdFrame

\* a call of load_crypto_data, directly or from the download step of main
InitLoad ==
  /\ pc = "idle"
  /\ n = 0
  /\ test_size = 0
  /\ kfolds = 2
  /\ GbIdle
  /\ pp_pc = "idle"
  /\ X_columns = <<>>
  /\ dtypes = <<>>
  /\ vif_threshold = 5
  /\ collinear = {}
  /\ PpIdle
  /\ TrIdle
  /\ SimIdle
  /\ TwIdle
  /\ l_pc \in {"main", "start"}
  /\ force_download \in IF l_pc = "main" THEN BOOLEAN ELSE {FALSE}
  /\ calculate_indicators \in IF l_pc = "main" THEN {FALSE} ELSE BOOLEAN
  /\ local_file \in RawFiles \cup {NoRawFile}
  /\ cached = local_file.exists
  /\ response \in Responses
  /\ requests = 0
  /\ returned_df = NotLoaded
  /\ FtIdle
  /\ ClIdle
  /\ BcIdle
  /\ LmIdle

NextLoad ==
  \/ MainDownload
  \/ LoadFetch
  \/ LoadRead

SpecLoad == InitLoad /\ [][NextLoad]_vars

\* ------------------------------------------- main: the columns of a train run
FtFrame == UNCHANGED <<gbVars, ppVars, simVars, twVars, ldVars, clVars, bcVars,
                       lmVars>>

\* main.py lines 281-296: the candidate features present in the table,
\* plus usd_brl when asked for
col_in_frame(frame) == keep(FEATURES_CANDIDATAS, Elems(frame))
OfferFeatures ==
  /\ f_pc = "loop"
  /\ features' =
       LET listed == col_in_frame(df_featured)
       IN IF use_usd_brl /\ "usd_brl" \in Elems(df_featured)
               /\ "usd_brl" \notin Elems(listed)
            THEN Append(listed, "usd_brl") ELSE listed
  /\ f_pc' = "preprocess"
  /\ UNCHANGED <<use_usd_brl, df_featured, offered>>
  /\ UNCHANGED trVars
  /\ FtFrame

\* main.py line 304: the frame handed to preprocess_features
frame_without_close(frame) == SelectSeq(frame, NotClose)

\* main.py lines 298-314: preprocess_features on the table; VIF pruning may
\* keep any non-empty part of its numeric columns and the F-test any
\* non-empty part of these; when the pruning comes to a single column,
\* variance_inflation_factor (preprocessing.py line 49) may raise on it
OfferPreprocess ==
  /\ f_pc = "preprocess"
  /\ LET X == frame_without_close(df_featured)
         numeric == SelectSeq(X, IsNumeric)
         force == IF use_usd_brl THEN <<"usd_brl">> ELSE <<>>
     IN /\ offered' = X
        /\ IF numeric = <<>>
             THEN /\ f_pc' = "raised"
                  /\ UNCHANGED X_clean
             ELSE \E X_kept \in SUBSET Elems(numeric) \ {{}} :
                    \/ /\ Cardinality(X_kept) = 1
                       /\ f_pc' = "raised"
                       /\ UNCHANGED X_clean
                    \/ \E mask \in SUBSET X_kept \ {{}} :
                         /\ X_clean' =
                              [rows |-> MaxRows,
                               columns |-> force_append(keep(numeric, mask), force, X)]
                         /\ f_pc' = "train"
  /\ UNCHANGED <<use_usd_brl, df_featured, features>>
  /\ UNCHANGED <<m_pc, args, sym, models_folder, features_json, preprocessed_csv,
                 plots, main_log, results, best_regressor>>
  /\ FtFrame

\* main.py lines 350-374, a best model having been found: the table, the
\* estimator and the feature list are written, up to the first write that
\* raises
OfferPersist ==
  /\ f_pc = "train"
  /\ \E best \in ModelTypes : \E outcome \in BestOutcomes :
       /\ Persist(outcome, best)
       /\ f_pc' = IF outcome = "ok" THEN "persisted" ELSE "raised"
  /\ UNCHANGED <<use_usd_brl, df_featured, features, offered>>
  /\ UNCHANGED <<m_pc, args, sym, X_clean, plots, main_log, results, best_regressor>>
  /\ UNCHANGED <<gbVars, ppVars, simRun, twVars, ldVars, clVars, bcVars, lmVars>>

\* the train loop reaching the first pair with its featured table loaded
InitOffer ==
  /\ pc = "idle"
  /\ n = 0
  /\ test_size = 0
  /\ kfolds = 2
  /\ GbIdle
  /\ pp_pc = "idle"
  /\ X_columns = <<>>
  /\ dtypes = <<>>
  /\ vif_threshold = 5
  /\ collinear = {}
  /\ PpIdle
  /\ m_pc = "loop"
  /\ args \in {a \in ArgsChoices : a.model = None}
  /\ sym = 1
  /\ X_clean = NoFrame
  /\ models_folder = [f \in Pairs \X ModelTypes |-> NoFile]
  /\ features_json = [p \in Pairs |-> <<>>]
  /\ preprocessed_csv = [p \in Pairs |-> <<>>]
  /\ plots = {}
  /\ main_log = <<>>
  /\ results = <<>>
  /\ best_regressor = NoRow
  /\ SimIdle
  /\ TwIdle
  /\ LdIdle
  /\ f_pc = "loop"
  /\ use_usd_brl \in BOOLEAN
  /\ df_featured \in FeaturedTables
  /\ features = <<>>
  /\ offered = <<>>
  /\ ClIdle
  /\ BcIdle
  /\ LmIdle

NextOffer ==
  \/ OfferFeatures
  \/ OfferPreprocess
  \/ OfferPersist

SpecOffer == InitOffer /\ [][NextOffer]_vars

\* ------------------------------------------------------ limpar_pastas_saida
ClFrame == UNCHANGED <<gbVars, ppVars, trVars, simVars, twVars, ldVars, ftVars, bcVars,
                       lmVars>>

\* main.py lines 182-184
MainClean ==
  /\ c_pc = "main"
  /\ c_pc' = IF action_all THEN "clean" ELSE "stages"
  /\ UNCHANGED <<action_all, files, files0, dirs, dirs0, locked, visited, cl_log,
                 touched>>
  /\ ClFrame

\* the files os.walk has still to hand out
Unvisited == { f \in files \ visited : f.folder \in pastas_para_limpar }

\* utils.py lines 119-125: one file of the walk
CleanRemove ==
  /\ c_pc = "clean"
  /\ \E caminho \in Unvisited :
       /\ visited' = visited \cup {caminho}
       /\ IF caminho \in locked
            THEN /\ cl_log' = cl_log \cup {caminho}
                 /\ UNCHANGED files
            ELSE /\ files' = files \ {caminho}
                 /\ UNCHANGED cl_log
  /\ UNCHANGED <<c_pc, action_all, files0, dirs, dirs0, locked, touched>>
  /\ ClFrame

\* utils.py line 117: the walks are exhausted
CleanDone ==
  /\ c_pc = "clean"
  /\ Unvisited = {}
  /\ c_pc' = "stages"
  /\ UNCHANGED <<action_all, files, files0, dirs, dirs0, locked, visited, cl_log,
                 touched>>
  /\ ClFrame

\* main.py lines 186-434: the stages write their files, each directly in its
\* folder: raw files in data/raw, which the loader makes when it is not
\* there (data_loader.py lines 153-154), tables, models, reports and plots
\* in the output folders; a run may write none
StageWrites ==
  { written \in SUBSET { f \in FilePaths : f.sub = "" } : Cardinality(written) <= MaxFiles }
MainStage ==
  /\ c_pc = "stages"
  /\ \E written \in StageWrites :
       /\ files' = files \cup written
       /\ dirs' = dirs \cup { [folder |-> f.folder, sub |-> ""] : f \in written }
       /\ touched' = (written # {})
  /\ c_pc' = "done"
  /\ UNCHANGED <<action_all, files0, dirs0, locked, visited, cl_log>>
  /\ ClFrame

\* main after the output folders exist (lines 171-180); data/raw is not one
\* of them: it is there when an earlier run left it
InitClean ==
  /\ pc = "idle"
  /\ n = 0
  /\ test_size = 0
  /\ kfolds = 2
  /\ GbIdle
  /\ pp_pc = "idle"
  /\ X_columns = <<>>
  /\ dtypes = <<>>
  /\ vif_threshold = 5
  /\ collinear = {}
  /\ PpIdle
  /\ TrIdle
  /\ SimIdle
  /\ TwIdle
  /\ LdIdle
  /\ FtIdle
  /\ c_pc = "main"
  /\ action_all \in BOOLEAN
  /\ files \in { fs \in SUBSET FilePaths : Cardinality(fs) <= MaxFiles }
  /\ files0 = files
  /\ \E raw_exists \in BOOLEAN :
       dirs = { dir \in DirPaths :
                  \/ dir.folder \in pastas_para_limpar /\ dir.sub = ""
                  \/ dir \in files
                  \/ /\ dir.folder = "data/raw"
                     /\ dir.sub = ""
                     /\ (raw_exists \/ \E f \in files : f.folder = "data/raw") }
  /\ dirs0 = dirs
  /\ locked \in { fs \in SUBSET files : Cardinality(fs) <= 1 }
  /\ visited = {}
  /\ cl_log = {}
  /\ touched = FALSE
  /\ BcIdle
  /\ LmIdle

NextClean ==
  \/ MainClean
  \/ CleanRemove
  \/ CleanDone
  \/ MainStage

SpecClean == InitClean /\ [][NextClean]_vars

\* ------------------------------------------------------ fetch_usd_brl_bacen
BcFrame ==
  UNCHANGED <<gbVars, ppVars, trVars, simVars, twVars, ldVars, ftVars, clVars, lmVars>>

\* lines 38-42: the two dates are parsed, inside the try
BacenStart ==
  /\ b_pc = "start"
  /\ IF dates_parse
       THEN /\ start_dt' = start_date
            /\ b_pc' = "loop"
            /\ UNCHANGED usd_brl_df
       ELSE /\ usd_brl_df' = "empty_after_error"
            /\ b_pc' = "returned"
            /\ UNCHANGED start_dt
  /\ UNCHANGED <<start_date, end_date, dates_parse, blocks, all_data>>
  /\ BcFrame

\* lines 44-64: one block is requested; a request that fails, or an answer
\* that is not JSON, raises into the except of line 75
BacenBlock ==
  /\ b_pc = "loop"
  /\ start_dt < end_date
  /\ LET block_end == Min2(start_dt + BlockDays, end_date)
     IN /\ blocks' = Append(blocks, <<start_dt, block_end>>)
        /\ \E answer \in {"data", "no_data", "raises"} :
             IF answer = "raises"
               THEN /\ usd_brl_df' = "empty_after_error"
                    /\ b_pc' = "returned"
                    /\ UNCHANGED <<start_dt, all_data>>
               ELSE /\ all_data' = all_data + (IF answer = "data" THEN 1 ELSE 0)
                    /\ start_dt' = block_end + 1
                    /\ UNCHANGED <<b_pc, usd_brl_df>>
  /\ UNCHANGED <<start_date, end_date, dates_parse>>
  /\ BcFrame

\* lines 65-77: the loop is over; the answers are joined and parsed
BacenFinish ==
  /\ b_pc = "loop"
  /\ ~(start_dt < end_date)
  /\ IF all_data = 0
       THEN usd_brl_df' = "empty"
       ELSE usd_brl_df' \in {"table", "empty_after_error"}
  /\ b_pc' = "returned"
  /\ UNCHANGED <<start_date, end_date, dates_parse, start_dt, blocks, all_data>>
  /\ BcFrame

\* a call of fetch_usd_brl_bacen(start_date, end_date), start_date <= end_date
InitBacen ==
  /\ pc = "idle"
  /\ n = 0
  /\ test_size = 0
  /\ kfolds = 2
  /\ GbIdle
  /\ pp_pc = "idle"
  /\ X_columns = <<>>
  /\ dtypes = <<>>
  /\ vif_threshold = 5
  /\ collinear = {}
  /\ PpIdle
  /\ TrIdle
  /\ SimIdle
  /\ TwIdle
  /\ LdIdle
  /\ FtIdle
  /\ ClIdle
  /\ LmIdle
  /\ b_pc = "start"
  /\ start_date \in StartDates
  /\ end_date \in start_date..MaxSpan
  /\ dates_parse \in BOOLEAN
  /\ start_dt = 0
  /\ blocks = <<>>
  /\ all_data = 0
  /\ usd_brl_df = "pending"

NextBacen ==
  \/ BacenStart
  \/ BacenBlock
  \/ BacenFinish

SpecBacen == InitBacen /\ [][NextBacen]_vars

\* --------------------------------------------------- limpar_modelos_antigos
LmFrame ==
  /\ UNCHANGED <<gbVars, ppVars, simVars, twVars, ldVars, ftVars, clVars, bcVars>>
  /\ UNCHANGED <<m_pc, args, sym, X_clean, features_json, preprocessed_csv, plots,
                 main_log, results, best_regressor>>

\* model_training.py line 652
formatos == <<"mlp", "linear", "polynomial", "randomforest">>

\* lines 653-657: one prefix; the file of the pair is removed when it is
\* there, and os.remove can raise (the file is in use, or not ours)
LimparRemove ==
  /\ lm_pc = "loop"
  /\ prefix_i <= Len(formatos)
  /\ LET caminho == <<lm_pair, formatos[prefix_i]>> IN
       IF models_folder[caminho] # NoFile
         THEN \E removable \in BOOLEAN :
                IF removable
                  THEN /\ models_folder' = [models_folder EXCEPT ![caminho] = NoFile]
                       /\ lm_log' = Append(lm_log, caminho)
                       /\ prefix_i' = prefix_i + 1
                       /\ UNCHANGED lm_pc
                  ELSE /\ lm_pc' = "raised"
                       /\ UNCHANGED <<models_folder, lm_log, prefix_i>>
         ELSE /\ prefix_i' = prefix_i + 1
              /\ UNCHANGED <<models_folder, lm_log, lm_pc>>
  /\ UNCHANGED lm_pair
  /\ LmFrame

\* the loop is exhausted: the function returns
LimparReturn ==
  /\ lm_pc = "loop"
  /\ prefix_i > Len(formatos)
  /\ lm_pc' = "returned"
  /\ UNCHANGED <<lm_pair, prefix_i, lm_log, models_folder>>
  /\ LmFrame

\* a call of limpar_modelos_antigos(pair_name, models_folder) on a folder
\* holding any of the eight model files and both feature lists
InitLimpar ==
  /\ pc = "idle"
  /\ n = 0
  /\ test_size = 0
  /\ kfolds = 2
  /\ GbIdle
  /\ pp_pc = "idle"
  /\ X_columns = <<>>
  /\ dtypes = <<>>
  /\ vif_threshold = 5
  /\ collinear = {}
  /\ PpIdle
  /\ m_pc = "direct"
  /\ args = NoArgs
  /\ sym = 0
  /\ X_clean = NoFrame
  /\ \E present \in SUBSET (Pairs \X ModelTypes) :
       models_folder = [f \in Pairs \X ModelTypes |->
                          IF f \in present
                            THEN BareModel(0..(MaxRows - 1), FeaturesOf(f[1]))
                            ELSE NoFile]
  /\ features_json = [p \in Pairs |-> FeaturesOf(p)]
  /\ preprocessed_csv = [p \in Pairs |-> <<>>]
  /\ plots = {}
  /\ main_log = <<>>
  /\ results = <<>>
  /\ best_regressor = NoRow
  /\ SimIdle
  /\ TwIdle
  /\ LdIdle
  /\ FtIdle
  /\ ClIdle
  /\ BcIdle
  /\ lm_pc = "loop"
  /\ lm_pair \in Pairs
  /\ prefix_i = 1
  /\ lm_log = <<>>

NextLimpar ==
  \/ LimparRemove
  \/ LimparReturn

SpecLimpar == InitLimpar /\ [][NextLimpar]_vars

TypeOK ==
  /\ pc \in {"idle", "gb_start", "gb_cv", "gb_return", "done", "te_start",
            "te_cv", "te_done", "cm_start", "cm_cv", "cm_done", "raised"}
  /\ m_pc \in {"direct", "loop", "train", "in_te", "in_gb", "in_cm", "done",
              "crashed"}
  /\ s_pc \in {"idle", "start", "models", "returned", "raised"}
  /\ call \in 0..2
  /\ first_name \in ModelNames \cup {None}
  /\ pp_pc \in {"idle", "start", "vif_loop", "vif_return", "scale", "select",
                "force", "done", "raised"}
  /\ best_name \in ModelNames \cup {None}
  /\ best_model = best_name

\* ------------------------------------------------------------ properties
Returning == pc \in {"gb_return", "done"}
CvRows == cv_train \cup cv_test
HasLog(kind) == \E i \in 1..Len(log) : log[i].kind = kind
OkCandidates == { i \in 1..Len(ModelOrder) : scored[ModelOrder[i]].status = "ok" }

\* C1: with test_size > 0 no row at index >= split_index is ever handed
\* to fit or predict inside the K-fold loop, and once the K-fold loop is
\* over (the hold-out evaluation and the return) the chosen candidate no
\* longer changes: what is returned is what cross-validation chose.
C1_HoldOutIsolated ==
  [][ /\ (test_size > 0 /\ pc' # "gb_start")
          => \A r \in cv_train' \cup cv_test' : r < split_index'
      /\ (pc = "gb_cv" /\ cand = Len(ModelOrder) + 1)
          => (best_name' = best_name /\ best_model' = best_model)
      /\ (pc = "gb_return")
          => (result'.name = best_name /\ result'.model = best_model) ]_vars
C1_Witness ==
  /\ pc = "done"
  /\ test_size > 0
  /\ X_val.rows # {}
  /\ cv_test = X_train_full
  /\ HasLog("holdout")
  /\ result.name # None

\* C2: every function splits at floor(n * (1 - test_size)): the pool is
\* rows 0..split_index-1, the hold-out rows split_index..n-1; with
\* test_size = 0 the pool is every row and there is no hold-out.
C2_SplitAtFloor ==
  pc # "gb_start" =>
    IF test_size > 0
      THEN /\ split_index = ExactFloor(n, test_size)
           /\ X_train_full = 0..(split_index - 1)
           /\ X_val.some /\ X_val.rows = split_index..(n - 1)
      ELSE /\ X_train_full = 0..(n - 1)
           /\ ~X_val.some
           /\ ~HasLog("holdout")

\* C3: the returned candidate has the lowest mean cross-validation MSE
\* among the candidates that have one, and is the first such candidate in
\* the order MLP, Linear, Polynomial, RandomForest.
C3_LowestMeanFirstWins ==
  Returning =>
    IF OkCandidates = {}
      THEN best_name = None
      ELSE \E i \in OkCandidates :
             /\ best_name = ModelOrder[i]
             /\ \A j \in OkCandidates :
                  /\ ~MeanLess(scored[ModelOrder[j]].mse, scored[ModelOrder[i]].mse)
                  /\ j < i => MeanLess(scored[ModelOrder[i]].mse, scored[ModelOrder[j]].mse)
C3_Witness ==
  /\ pc = "done"
  /\ result.name = "Linear"
  /\ scored["MLP"].status = "ok"
  /\ scored["Polynomial"].status = "ok"
  /\ scored["Polynomial"].mse = scored["Linear"].mse
  /\ MeanLess(scored["Linear"].mse, scored["MLP"].mse)

\* C4: a fold that raises costs the candidate only that fold: a candidate
\* with at least one scored fold still gets a mean over its scored folds
\* and takes part in the selection.
C4_RaisedFoldOnlyExcluded ==
  Returning =>
    \A c \in ModelNames : scored[c].nscores > 0 => scored[c].status = "ok"

\* C6: a returned model was last fitted on the full training pool (every
\* row when test_size = 0), never on the training part of a single fold.
C6_ReturnedFitOnPool ==
  (result.returned /\ result.model # None) =>
    fitted[result.model] = FitOn(X_train_full)

\* C5: a candidate whose evaluation failed is never the best and never
\* stops the selection: at the return every candidate has been evaluated,
\* the best one (if any) has a mean, and when all four failed the function
\* returns (None, None) without raising; main then logs a warning for that
\* pair, writes nothing for it and goes on to the next pair.
C5_AllFailReturnsNone ==
  /\ [](Returning => \A c \in ModelNames : scored[c].status \in {"ok", "error"})
  /\ [](best_name # None => scored[best_name].status = "ok")
  /\ []((Returning /\ \A c \in ModelNames : scored[c].status = "error")
          => (best_name = None /\ (pc = "done" => result.model = None /\ result.name = None)))
  /\ [](m_pc = "in_gb" => pc # "raised")
  /\ [][ (m_pc = "in_gb" /\ pc = "done" /\ result.model = None)
           => /\ m_pc' = "loop"
              /\ sym' = sym + 1
              /\ main_log' = Append(main_log, [kind |-> "warning", pair |-> AllProcessed[sym]])
              /\ UNCHANGED <<models_folder, features_json, preprocessed_csv>> ]_vars
C5_Witness ==
  /\ m_pc = "done"
  /\ main_log = <<[kind |-> "warning", pair |-> "BTC_USDT"]>>
  /\ \A t \in ModelTypes : models_folder[<<"BTC_USDT", t>>] = NoFile
  /\ models_folder[<<"ETH_USDT", "linear">>].kind # "absent"

\* C7: every <model-type>_<pair>.pkl the train action has written holds
\* the fitted model together with the ordered list of the feature names
\* it was fitted on.
C7_ArtifactBundlesFeatures ==
  \A f \in Pairs \X ModelTypes :
    models_folder[f].kind # "absent" =>
      /\ models_folder[f].kind = "bundle"
      /\ models_folder[f].features = models_folder[f].fit_columns

\* a VIF value above the threshold (NaN is not)
Above(x) == x # NaN /\ x > vif_threshold
Min(a, b) == IF a <= b THEN a ELSE b
\* remove_high_vif_features has returned
PastVif ==
  pp_pc \in {"scale", "select", "force", "done"} \/ pp_raise \in {"scaler", "select", "force"}
\* the VIF series of a pass covers the columns it was computed for
Measured(c) == c \in DOMAIN vif'

\* C8: remove_high_vif_features terminates; a pass that finds a VIF above
\* the threshold while more than one column remains drops exactly one
\* column, one with the highest VIF; the loop ends as soon as no remaining
\* column is above the threshold or only one column remains; and for an X
\* with at least one column the result has at least one column.
C8_VifLoopTerminates ==
  /\ <>(pp_pc \notin {"start", "vif_loop", "vif_return"})
  /\ [][ (pp_pc = "vif_loop" /\ pp_pc' \in {"vif_loop", "vif_return"}) =>
           IF Len(X_cur) > 1 /\ \E c \in Elems(X_cur) : Measured(c) /\ Above(vif'[c])
             THEN /\ pp_pc' = "vif_loop"
                  /\ Len(X_cur') = Len(X_cur) - 1
                  /\ \E d \in Elems(X_cur) :
                       /\ X_cur' = drop(X_cur, d)
                       /\ dropped' = Append(dropped, d)
                       /\ \A c \in Elems(X_cur) : Measured(c) => vif'[c] <= vif'[d]
             ELSE /\ pp_pc' = "vif_return"
                  /\ X_cur' = X_cur ]_vars
  /\ [](PastVif /\ X_columns # <<>> => X_vif # <<>>)

\* C9 (as stated): when X holds a collinear pair whose two VIFs are above the
\* threshold whenever both are present, the columns returned lack at least
\* one of the pair and are fewer than those received; when no VIF of X is
\* above the threshold, the columns of X are returned unchanged.
C9_CollinearPairPruned ==
  /\ []((PastVif /\ collinear # {}) =>
          (~(collinear \subseteq Elems(X_vif)) /\ Len(X_vif) < Len(X_columns)))
  /\ [][ (pp_pc = "vif_loop" /\ dropped = <<>> /\ pp_pc' # "raised"
            /\ \A c \in Elems(X_cur) : Measured(c) => ~Above(vif'[c]))
           => (pp_pc' = "vif_return" /\ X_cur' = X_columns /\ dropped' = <<>>) ]_vars
  /\ []((PastVif /\ dropped = <<>>) => X_vif = X_columns)

\* C9 (amended): when X holds a collinear pair of numeric columns whose two
\* VIFs are above the threshold whenever both are present, the columns
\* returned lack at least one of the pair and are fewer than those received;
\* when no VIF of X is above the threshold, the numeric columns of X are
\* returned unchanged and its other columns are not returned.
C9_NumericColumnsKept ==
  /\ []((PastVif /\ collinear # {}) =>
          (~(collinear \subseteq Elems(X_vif)) /\ Len(X_vif) < Len(X_columns)))
  /\ [][ (pp_pc = "vif_loop" /\ dropped = <<>> /\ pp_pc' # "raised"
            /\ \A c \in Elems(select_dtypes(X_cur)) : ~Above(vif'[c]))
           => /\ pp_pc' = "vif_return"
              /\ X_cur' = select_dtypes(X_columns)
              /\ dropped' = <<>> ]_vars
  /\ []((PastVif /\ dropped = <<>>) => X_vif = select_dtypes(X_columns))
C9_Witness ==
  /\ pp_pc = "scale"
  /\ Len(X_columns) = 3
  /\ dtypes["C"] = "bool"
  /\ dropped = <<>>
  /\ X_vif = <<"A", "B">>

\* C10: preprocess_features returns at most min(k_best, columns left by
\* the VIF pruning) + (force_include names not selected by the F-test)
\* columns; k_best is clamped to the columns left and the F-test keeps
\* exactly that many; and with k_best above the number of columns the
\* pruning left the call does not raise.
C10_ColumnCountBound ==
  /\ pp_pc = "done" =>
       Len(pp_out) <= Min(k_best_arg, Len(X_vif))
                        + Cardinality(Elems(force_include) \ Elems(selected_columns))
  /\ pp_pc \in {"force", "done"} =>
       /\ k_best = Min(k_best_arg, Len(X_vif))
       /\ Len(selected_columns) = k_best
  /\ (PastVif /\ k_best_arg > Len(X_vif)) => pp_raise = ""

Positions(seq, c) == { i \in 1..Len(seq) : seq[i] = c }

\* C11 (as stated): every name in force_include is a column of the frame
\* preprocess_features returns, exactly once, and after the columns the
\* F-test selected when it is not one of them.
C11_ForcedAlwaysPresent ==
  pp_pc = "done" =>
    \A c \in Elems(force_include) :
      /\ Cardinality(Positions(pp_out, c)) = 1
      /\ c \notin Elems(selected_columns)
           => \A i \in Positions(pp_out, c) : i > Len(selected_columns)

\* C11 (amended): the frame preprocess_features returns starts with the
\* columns the F-test selected, in their order, and every name in
\* force_include that is a column of X is a column of it exactly once, also
\* when the VIF pruning dropped it or the F-test did not select it; a forced
\* column that was not selected comes after the selected ones.  A name in
\* force_include that is not a column of X is not a column of the frame.
C11_ForcedColumnOfXPresent ==
  pp_pc = "done" =>
    /\ Len(pp_out) >= Len(selected_columns)
    /\ SubSeq(pp_out, 1, Len(selected_columns)) = selected_columns
    /\ \A c \in Elems(force_include) \cap Elems(X_columns) :
         /\ Cardinality(Positions(pp_out, c)) = 1
         /\ c \notin Elems(selected_columns)
              => \A i \in Positions(pp_out, c) : i > Len(selected_columns)
    /\ \A c \in Elems(force_include) \ Elems(X_columns) : c \notin Elems(pp_out)
C11_Witness ==
  /\ pp_pc = "done"
  /\ k_best_arg = 2
  /\ Len(selected_columns) = 2
  /\ Len(force_include) = 1
  /\ force_include[1] \in Elems(dropped)
  /\ Len(pp_out) = 3
  /\ pp_out[3] = force_include[1]

\* ---------------------------------------------------------------- backtest
\* the model whose column was written last, and that column
Evaluated == model_i > 1 /\ profit_evolution[loaded_models[model_i - 1]].present
LastColumn == profit_evolution[loaded_models[model_i - 1]]
Invested == <<INITIAL_INVESTMENT, 1>>

\* C12: the signal applied to a row is 1 exactly when the prediction made for
\* the row before it is strictly greater than the actual close of the row
\* before that one, and 0 otherwise: it is the previous row's raw signal, and
\* it reads no prediction and no close of its own or of a later row.
C12_SignalFromPreviousClose ==
  all_predictions # <<>> =>
    \A t \in 2..(Len(csv_close) - 1) :
      signals[t + 1] = IF all_predictions[t] > csv_close[t - 1] THEN 1 ELSE 0

\* a long position taken although the row's own prediction is the lowest one
C12_Witness ==
  /\ Len(all_predictions) = 3
  /\ signals[3] = 1
  /\ all_predictions[2] > csv_close[1]
  /\ all_predictions[3] = 0

\* C13: whatever the model predicts, the signal applied at row 0 is 0 and the
\* balance of row 0 is the initial investment.
C13_FirstRowNeutral ==
  /\ all_predictions # <<>> => signals[1] = 0
  /\ \A key \in ModelTypes :
       profit_evolution[key].present /\ 1 \in profit_evolution[key].rows =>
         profit_evolution[key].balance[1] = Invested

\* the highest prediction at row 0, and row 0 in the column
C13_Witness ==
  /\ Evaluated
  /\ all_predictions[1] = 3
  /\ 1 \in LastColumn.rows
  /\ Len(csv_close) > 1

\* C14: the balance starts at the initial investment and each row multiplies
\* the balance of the row before it by
\* 1 + applied signal * (close[t] - close[t-1]) / close[t-1].
C14_BalanceCompounds ==
  Evaluated =>
    \A t \in LastColumn.rows :
      /\ t = 1 => LastColumn.balance[t] = Invested
      /\ t > 1 /\ t - 1 \in LastColumn.rows =>
           LastColumn.balance[t] =
             FracMul(LastColumn.balance[t - 1],
                     FracAdd(<<1, 1>>,
                             Frac(signals[t] * (csv_close[t] - csv_close[t - 1]),
                                  csv_close[t - 1])))

\* a falling price held long: the balance shrinks by close[t]/close[t-1]
C14_Witness ==
  /\ Evaluated
  /\ \E t \in LastColumn.rows :
       /\ t > 1
       /\ t - 1 \in LastColumn.rows
       /\ signals[t] = 1
       /\ csv_close[t] < csv_close[t - 1]
       /\ LastColumn.balance[t] # LastColumn.balance[t - 1]

\* C15: when the applied signal is 0 at every row, the balance is the
\* initial investment at every row.
C15_FlatStrategyFlatBalance ==
  Evaluated /\ (\A t \in 1..Len(signals) : signals[t] = 0) =>
    \A t \in LastColumn.rows : LastColumn.balance[t] = Invested

\* no position ever taken while the price moves
C15_Witness ==
  /\ Evaluated
  /\ Len(csv_close) >= 2
  /\ \A t \in 1..Len(signals) : signals[t] = 0
  /\ \E t \in 2..Len(csv_close) : csv_close[t] # csv_close[t - 1] /\ t \in LastColumn.rows

\* the cases in which no model can be evaluated: no model file loads, the
\* pre-processed file is missing or lacks date/close, the feature list is
\* missing or unreadable, or columns it names are not in the table
CannotEvaluate ==
  \/ \A key \in ModelTypes : ~Loads(key)
  \/ preprocessed_csv[pair_name] = <<>>
  \/ ~({"date", "close"} \subseteq Elems(preprocessed_csv[pair_name]))
  \/ ~json_exists
  \/ pair_name \in json_unreadable
  \/ missing # {}

\* C16: when no model can be evaluated the call ends by returning, it has
\* written no profit plot and it has logged the condition.
C16_NothingEvaluatedNoPlot ==
  s_pc \in {"returned", "raised"} /\ CannotEvaluate =>
    /\ s_pc = "returned"
    /\ ~profit_plot
    /\ \E i \in 1..Len(sim_log) : sim_log[i].kind \in {"warning", "error"}

\* C17: an exception raised while one symbol is processed does not end the
\* loop: main never stops on it, and it is finished only after it has gone
\* past the last symbol.
C17_FailureSkipsSymbol ==
  /\ m_pc # "crashed"
  /\ m_pc = "done" => sym > Len(AllProcessed)

\* C18: a call of train_and_evaluate_model with an unknown model_type, or
\* with Polynomial and a poly_degree outside 2..10, ends with an error in the
\* log, no estimator fitted and no file in models_folder.
C18_BadConfigurationNoFit ==
  /\ m_pc = "direct"
  /\ pc \in {"te_cv", "te_done", "raised"}
  /\ \/ args.model \notin ModelNames
     \/ args.model = "Polynomial" /\ (args.poly_degree < 2 \/ args.poly_degree > 10)
  => /\ pc = "te_done"
     /\ log = <<[kind |-> "error", name |-> args.model]>>
     /\ \A m \in ModelNames : fitted[m] = Unfitted
     /\ \A f \in Pairs \X ModelTypes : models_folder[f] = NoFile

\* a degree-1 polynomial asked for on a table long enough to train on
C18_Witness ==
  /\ m_pc = "direct"
  /\ pc = "te_done"
  /\ args.model = "Polynomial"
  /\ args.poly_degree = 1
  /\ n >= kfolds
  /\ log # <<>>

\* C20: while main runs a training routine, the hold-out fraction that
\* routine works with is the one given with --validation_split, and with
\* 0.0 it separates no hold-out.
C20_HoldOutIsValidationSplit ==
  m_pc \in {"in_te", "in_gb", "in_cm"} =>
    /\ test_size = args.validation_split
    /\ args.validation_split = 0 => X_val = val_of(n, 0)

\* C19: a second call of get_best_model_by_mse with the same arguments
\* returns the name the first call returned: every fold of the second call
\* fits the rows, and draws from the stream, of a fold of the first call,
\* and nothing either call drew from outlives it.
C19_SameCallSameName ==
  /\ [](call = 2 /\ pc = "done" => result.name = first_name)
  /\ [][call = 2 => seen' = seen]_vars
  /\ [](np_random = 0)

\* both calls went through cross-validation, the seeded candidates scored
\* on every fold, and the last candidate won over a first one that scored
C19_Witness ==
  /\ call = 2
  /\ pc = "done"
  /\ result.name = "RandomForest"
  /\ first_name = "RandomForest"
  /\ scored["MLP"].status = "ok"
  /\ scored["RandomForest"].status = "ok"
  /\ scored["Linear"].status = "error"
  /\ \E r \in seen : r.key.stream = [from |-> "seed", at |-> 42]

\* C29: the prediction of row 0 is compared with a last-known price of 0, so
\* the signal applied at row 1 is 1 exactly when the prediction of row 0 is
\* positive, whatever the closes are.
C29_FirstPredictionAgainstZero ==
  all_predictions # <<>> /\ Len(csv_close) >= 2 =>
    signals[2] = IF all_predictions[1] > 0 THEN 1 ELSE 0

\* long at row 1 on a prediction below the close of row 0
C29_Witness ==
  /\ Len(all_predictions) >= 2
  /\ signals[2] = 1
  /\ all_predictions[1] = 1
  /\ csv_close[1] = 2

\* the model files present for a pair
Artifacts(pair) == { t \in ModelTypes : models_folder[<<pair, t>>].kind # "absent" }

\* C26: once an automatic train run is over, every model file of a pair was
\* fitted on the feature list features_<pair>.json records, and a pair has
\* no file of an earlier model type beside the one just selected.
C26_ArtifactsMatchFeatureList ==
  m_pc = "done" /\ args.model = None =>
    \A pair \in Pairs :
      /\ \A t \in Artifacts(pair) :
           models_folder[<<pair, t>>].fit_columns = features_json[pair]
      /\ Cardinality(Artifacts(pair)) <= 1

\* C27: a file written by train_and_evaluate_model that the simulator loads,
\* with the table and the feature list in place, gets its balance column.
C27_PersistedModelConsumable ==
  /\ s_pc \in {"returned", "raised"}
  /\ ~CannotEvaluate
  /\ Len(csv_close) > 0
  => /\ s_pc = "returned"
     /\ \A key \in ModelTypes :
          ModelFile(key).kind = "bundle" => profit_evolution[key].present

\* --------------------------------------------------------------- data loading
\* C22: with --force_download the download step requests the remote file
\* even when the local file exists; otherwise a request is issued exactly
\* when the local file is absent.
C22_ForceDownloadFetches ==
  l_pc = "returned" => (requests > 0 <=> (force_download \/ ~cached))

\* C23: a returned table has strictly increasing dates: sorted, no
\* unparseable date, no date twice.
C23_DatesStrictlyIncreasing ==
  returned_df.kind = "frame" =>
    /\ \A i \in 1..Len(returned_df.rows) : returned_df.rows[i][1] # NaT
    /\ \A i \in 1..(Len(returned_df.rows) - 1) :
         returned_df.rows[i][1] < returned_df.rows[i + 1][1]

\* C24: load_crypto_data returns None or a table that has a date column, a
\* close column and at least one row.
C24_NoneOrUsableTable ==
  l_pc = "returned" =>
    \/ returned_df = NoneLoaded
    \/ /\ returned_df.kind = "frame"
       /\ {"date", "close"} \subseteq Elems(returned_df.columns)
       /\ returned_df.rows # <<>>

\* the columns a train run may use as model inputs
Allowed ==
  Elems(FEATURES_CANDIDATAS) \cup (IF use_usd_brl THEN {"usd_brl"} ELSE {})

\* C21: the columns handed to feature selection, the columns the persisted
\* model was fitted on and the names in features_<pair>.json all belong to
\* FEATURES_CANDIDATAS, plus usd_brl when it is asked for.
C21_OnlyCandidateFeatures ==
  /\ f_pc \in {"train", "persisted"} => Elems(offered) \subseteq Allowed
  /\ f_pc = "persisted" =>
       /\ Elems(features_json[pair_key]) \subseteq Allowed
       /\ \A t \in ModelTypes :
            Elems(models_folder[<<pair_key, t>>].fit_columns) \subseteq Allowed

\* ------------------------------------------------------------------ cleaning
InOutput(f) == f.folder \in {"data/output", "data/processed", "data/models",
                              "grafico/plots", "grafico/analysis",
                              "grafico/profit_plots", "data/stats_reports"}

\* C25: once limpar_pastas_saida is over, every file that was under one of
\* the seven output folders is gone or was logged as not removable, every
\* file elsewhere and every directory is still there; and under --action
\* all the cleaning is over before a stage touches those folders.
C25_OutputFoldersEmptied ==
  /\ c_pc = "clean" => ~touched
  /\ c_pc = "stages" /\ action_all =>
       /\ \A f \in files0 : InOutput(f) => (f \notin files \/ (f \in locked /\ f \in cl_log))
       /\ \A f \in files0 : ~InOutput(f) => f \in files
       /\ \A f \in files : f \in files0
       /\ dirs = dirs0
       /\ cl_log = { f \in files0 : InOutput(f) /\ f \in locked }

\* a nested file removed, a locked one logged, a raw file kept
C25_Witness ==
  /\ c_pc = "stages"
  /\ action_all
  /\ \E f \in files0 : InOutput(f) /\ f.sub = "sub" /\ f \notin files
  /\ \E f \in cl_log : f \in files
  /\ \E f \in files : f.folder = "data/raw"

\* C30: a call that ends without a request or parse failure has asked for
\* blocks of at most 3652 days that follow one another without overlap and
\* reach from start_date to end_date, so that every day of the range was
\* requested.
C30_BlocksCoverRange ==
  b_pc = "returned" /\ usd_brl_df # "empty_after_error" =>
    /\ blocks # <<>>
    /\ blocks[1][1] = start_date
    /\ blocks[Len(blocks)][2] = end_date
    /\ \A i \in 1..Len(blocks) :
         blocks[i][1] <= blocks[i][2] /\ blocks[i][2] - blocks[i][1] <= 3652
    /\ \A i \in 1..(Len(blocks) - 1) : blocks[i + 1][1] = blocks[i][2] + 1

\* C28: train_and_evaluate_model and compare_models enter the K-fold loop only
\* with a training pool (the rows before the hold-out split) of at least
\* kfolds rows, and with a smaller pool neither of them raises.
C28_CrossValidationNeedsPoolOfKfolds ==
  /\ pc \in {"te_cv", "cm_cv"} => kfolds <= Cardinality(X_train_full)
  /\ pc = "raised" => kfolds <= Cardinality(X_train_full)

====
